---- MODULE Spec2Model ----
(***************************************************************************)
(* Model of the MTPE data-warehouse ETL (2_ETL_INTEGRATION/src): the      *)
(* extractor (extract/extract_cleaned_data.py), the transformer and its   *)
(* main (transform/transform_to_constellation.py) and the loader          *)
(* (load/load_to_neondb.py).  Spec runs the transformer on a dataset      *)
(* mapping, SpecExtract the extractor on a directory, SpecMain the main   *)
(* of the transform script, SpecLoad the loader.                          *)
(*                                                                        *)
(* A pandas DataFrame is a record [cols, rows]: cols is the set of column *)
(* names, rows the sequence of rows.  Every row of one kind of table has  *)
(* the same fields; a column that is not in cols holds the null of its    *)
(* type in every row (which is what pd.concat produces when it adds the   *)
(* column).  A Python dict is a function whose DOMAIN is the set of keys. *)
(*                                                                        *)
(* pandas semantics the model relies on:                                  *)
(*   - drop_duplicates keeps the first occurrence and treats nulls as     *)
(*     equal to each other;                                               *)
(*   - merge matches null keys with null keys; how='left' keeps the left  *)
(*     order and yields one row per matching right row (or one row of     *)
(*     nulls); how='inner' keeps the left order and drops unmatched rows; *)
(*   - selecting or de-duplicating on a missing column raises KeyError;   *)
(*   - pd.concat of an empty list raises ValueError;                      *)
(*   - the .dt accessor of an empty (object) column raises AttributeError.*)
(***************************************************************************)
EXTENDS Integers, Sequences, FiniteSets, TLC

\* ------------------------------------------------------------------ bounds
MaxRows == 2
MaxId == 2
MaxRuns == 2

\* --------------------------------------------------------------- constants
\* NaN in a numeric column / None-NaN in an object column.
Null == -1
NaN == "NaN"
\* Timestamps are counted in ticks; a calendar day has TicksPerDay ticks.
TicksPerDay == 2

DatasetNames == {"postulante", "discapacidad", "educacion", "experiencias",
                 "vacantes", "competencias"}

VacCols == {"AVISOID", "NOMBREAVISO", "VACANTES", "SECTOR", "UBIGEO",
            "SINEXPERIENCIA", "TIEMPOEXPERIENCIA", "IDEMPRESA", "DEPARTAMENTO",
            "PROVINCIA", "DISTRITO", "FECHAINICIO", "FECHAFIN", "FECHACREACION",
            "ACTIVO"}
PostCols == {"ID_POSTULANTE", "EDAD", "SEXO", "UBIGEO", "ESTADO_CONADIS",
             "DEPARTAMENTO", "PROVINCIA", "DISTRITO"}
EduCols == {"ID_POSTULANTE", "CARRERA", "INSTITUCION", "GRADO", "FECHAINICIO",
            "FECHAFIN"}
ExpCols == {"ID_POSTULANTE"}
CompCols == {"AVISOID", "NOMBRECOMPETENCIA"}
DiscCols == {"ID_POSTULANTE"}
LocCols == {"DEPARTAMENTO", "PROVINCIA", "DISTRITO", "UBIGEO"}

\* ----------------------------------------------------------- input domain
Ids == 1..MaxId
IdsOrNull == Ids \cup {Null}
Variants == {"full", "sparse"}
CompNames == {NaN, "PYTHON", "SQL"}

\* Non-empty sequences of at most MaxRows elements of S.
Tables(S) == UNION {[1..n -> S] : n \in 1..MaxRows}

\* A job-posting row.  A "full" row has every attribute, with dates that run
\* against the ID order and carry a time of day; a "sparse" row has nulls.
VacRow(id, v) ==
    IF v = "full"
    THEN [AVISOID |-> id, NOMBREAVISO |-> "AVISO", VACANTES |-> 3,
          SECTOR |-> "COMERCIO",
          UBIGEO |-> IF id = 1 THEN "150101" ELSE "040101",
          SINEXPERIENCIA |-> IF id = 1 THEN "SI" ELSE "NO",
          TIEMPOEXPERIENCIA |-> 6,
          IDEMPRESA |-> IF id = Null THEN 9 ELSE 10 + id,
          DEPARTAMENTO |-> "LIMA", PROVINCIA |-> "LIMA", DISTRITO |-> "LIMA",
          FECHAINICIO |-> TicksPerDay * 4,
          FECHAFIN |-> TicksPerDay * 5 + 1,
          FECHACREACION |-> IF id = Null THEN TicksPerDay * 4 + 1
                                        ELSE TicksPerDay * (4 - id) + 1,
          ACTIVO |-> IF id = 1 THEN "True" ELSE "False"]
    ELSE [AVISOID |-> id, NOMBREAVISO |-> NaN, VACANTES |-> Null,
          SECTOR |-> NaN, UBIGEO |-> NaN, SINEXPERIENCIA |-> "QUIZAS",
          TIEMPOEXPERIENCIA |-> Null, IDEMPRESA |-> Null,
          DEPARTAMENTO |-> NaN, PROVINCIA |-> NaN, DISTRITO |-> NaN,
          FECHAINICIO |-> Null, FECHAFIN |-> Null, FECHACREACION |-> Null,
          ACTIVO |-> "True"]

PostRow(id, v) ==
    IF v = "full"
    THEN [ID_POSTULANTE |-> id, EDAD |-> 30, SEXO |-> "F",
          UBIGEO |-> IF id = 1 THEN "150101" ELSE "130101",
          ESTADO_CONADIS |-> "VIGENTE", DEPARTAMENTO |-> "LIMA",
          PROVINCIA |-> "LIMA", DISTRITO |-> IF id = 1 THEN "LIMA" ELSE NaN]
    ELSE [ID_POSTULANTE |-> id, EDAD |-> Null, SEXO |-> NaN, UBIGEO |-> NaN,
          ESTADO_CONADIS |-> NaN, DEPARTAMENTO |-> NaN, PROVINCIA |-> NaN,
          DISTRITO |-> NaN]

EduRow(id, v) ==
    IF v = "full"
    THEN [ID_POSTULANTE |-> id,
          CARRERA |-> IF id = 1 THEN "DERECHO" ELSE "MEDICINA",
          INSTITUCION |-> "UNMSM",
          GRADO |-> IF id = 1 THEN NaN ELSE "BACHILLER",
          FECHAINICIO |-> TicksPerDay * 2, FECHAFIN |-> TicksPerDay * 3 + 1]
    ELSE [ID_POSTULANTE |-> id, CARRERA |-> NaN, INSTITUCION |-> NaN,
          GRADO |-> "TITULADO", FECHAINICIO |-> Null, FECHAFIN |-> Null]

ExpRow(id) == [ID_POSTULANTE |-> id]
DiscRow(id) == [ID_POSTULANTE |-> id]
CompRow(id, n) == [AVISOID |-> id, NOMBRECOMPETENCIA |-> n]

Frame(cols, rows) == [cols |-> cols, rows |-> rows]

\* A table read from a file that lacks the columns in drop.
NullOf(c) ==
    IF c \in {"AVISOID", "VACANTES", "TIEMPOEXPERIENCIA", "IDEMPRESA", "FECHAINICIO",
              "FECHAFIN", "FECHACREACION", "ID_POSTULANTE", "EDAD"}
    THEN Null ELSE NaN
Without(df, drop) ==
    Frame(df.cols \ drop,
          [i \in 1..Len(df.rows) |->
              [c \in DOMAIN df.rows[i] |->
                  IF c \in drop THEN NullOf(c) ELSE df.rows[i][c]]])

\* The default tables: one posting, two competency rows of which the second
\* references a posting that does not exist (an orphan).
DefaultVac == Frame(VacCols, <<VacRow(1, "full")>>)
DefaultComp == Frame(CompCols, <<CompRow(1, "PYTHON"), CompRow(2, "SQL")>>)
DefaultPost == Frame(PostCols, <<PostRow(1, "full")>>)
DefaultEdu == Frame(EduCols, <<EduRow(1, "full")>>)
DefaultExp == Frame(ExpCols, <<ExpRow(1)>>)
DefaultDisc == Frame(DiscCols, <<DiscRow(1)>>)

Mapping(post, disc, edu, exp, vac, comp) ==
    [n \in DatasetNames |->
        CASE n = "postulante" -> post
          [] n = "discapacidad" -> disc
          [] n = "educacion" -> edu
          [] n = "experiencias" -> exp
          [] n = "vacantes" -> vac
          [] OTHER -> comp]

Restrict(f, S) == [x \in S |-> f[x]]
Put(f, k, v) == [x \in DOMAIN f \cup {k} |-> IF x = k THEN v ELSE f[x]]

VacTables ==
    {Frame(VacCols, [i \in DOMAIN ids |-> VacRow(ids[i], v)]) :
        ids \in Tables(IdsOrNull), v \in Variants}
CompTables ==
    {Frame(CompCols, t) :
        t \in Tables({CompRow(id, n) : id \in IdsOrNull, n \in CompNames})}
PostTables ==
    {Frame(PostCols, [i \in DOMAIN ids |-> PostRow(ids[i], v)]) :
        ids \in Tables(IdsOrNull), v \in Variants}
EduTables ==
    {Frame(EduCols, [i \in DOMAIN ids |-> EduRow(ids[i], v)]) :
        ids \in Tables(IdsOrNull), v \in Variants}
ExpTables ==
    {Frame(ExpCols, [i \in DOMAIN ids |-> ExpRow(ids[i])]) :
        ids \in Tables(IdsOrNull)}

\* Sample tables to pair a varied table with: the default, one with two
\* distinct IDs (the second row sparse), one with a repeated ID.
VacSamples ==
    {DefaultVac,
     Frame(VacCols, <<VacRow(1, "full"), VacRow(2, "sparse")>>),
     Frame(VacCols, <<VacRow(2, "full"), VacRow(2, "full")>>)}
CompSamples ==
    {DefaultComp,
     Frame(CompCols, <<CompRow(1, "PYTHON"), CompRow(1, "SQL")>>),
     Frame(CompCols, <<CompRow(Null, "PYTHON"), CompRow(2, NaN)>>)}
PostSamples ==
    {DefaultPost,
     Frame(PostCols, <<PostRow(1, "full"), PostRow(2, "sparse")>>),
     Frame(PostCols, <<PostRow(2, "full"), PostRow(2, "sparse")>>)}
EduSamples ==
    {DefaultEdu, Frame(EduCols, <<EduRow(2, "full"), EduRow(1, "sparse")>>)}
ExpSamples ==
    {DefaultExp, Frame(ExpCols, <<ExpRow(2), ExpRow(Null)>>)}

\* The dataset mappings a DataTransformer is constructed on: one table takes
\* every value of its domain, paired with samples of the tables it is joined
\* with.
PostingInputs ==
    {Mapping(DefaultPost, DefaultDisc, DefaultEdu, DefaultExp, vac, comp) :
        vac \in VacTables, comp \in CompSamples}
    \cup
    {Mapping(DefaultPost, DefaultDisc, DefaultEdu, DefaultExp, vac, comp) :
        vac \in VacSamples, comp \in CompTables}
ApplicantInputs ==
    {Mapping(post, DefaultDisc, edu, exp, DefaultVac, DefaultComp) :
        post \in PostTables, edu \in EduSamples, exp \in ExpSamples}
    \cup
    {Mapping(post, DefaultDisc, edu, DefaultExp, DefaultVac, DefaultComp) :
        post \in PostSamples, edu \in EduTables}
    \cup
    {Mapping(post, DefaultDisc, DefaultEdu, exp, DefaultVac, DefaultComp) :
        post \in PostSamples, exp \in ExpTables}
AllDefault ==
    Mapping(DefaultPost, DefaultDisc, DefaultEdu, DefaultExp, DefaultVac, DefaultComp)
\* Mappings that lack whole datasets.
PartialInputs == {Restrict(AllDefault, S) : S \in SUBSET DatasetNames}
\* Mappings whose tables lack columns.
VacDrops == {{}, {"AVISOID"}, {"IDEMPRESA"}, {"ACTIVO"}, {"FECHACREACION"}, {"UBIGEO"},
             LocCols, {"FECHAINICIO", "FECHAFIN", "FECHACREACION"}}
PostDrops == {{}, {"ID_POSTULANTE"}, {"UBIGEO"}, LocCols}
EduDrops == {{}, {"ID_POSTULANTE"}, {"CARRERA"}, {"INSTITUCION"}, {"GRADO"},
             {"FECHAINICIO", "FECHAFIN"}}
CompDrops == {{}, {"AVISOID"}, {"NOMBRECOMPETENCIA"}}
NarrowInputs ==
    {Mapping(Without(DefaultPost, dp), DefaultDisc, Without(DefaultEdu, de),
             DefaultExp, Without(DefaultVac, dv), Without(DefaultComp, dc)) :
        dp \in PostDrops, de \in EduDrops, dv \in VacDrops, dc \in CompDrops}

\* Mappings whose posting table lacks columns and whose competencies all
\* reference a posting (no orphan).
NoOrphanInputs ==
    {Mapping(DefaultPost, DefaultDisc, DefaultEdu, DefaultExp, Without(DefaultVac, dv),
             Frame(CompCols, <<CompRow(1, "PYTHON")>>)) : dv \in VacDrops}

\* Mappings whose applicant table has the geocode and lacks the district, so
\* that dim_ubicacion is built from the postings alone.
UnlocatedInputs ==
    {Mapping(Without(post, {"DISTRITO"}), DefaultDisc, DefaultEdu, DefaultExp,
             DefaultVac, DefaultComp) : post \in PostSamples}

Inputs ==
    PostingInputs \cup ApplicantInputs \cup PartialInputs \cup NarrowInputs
    \cup NoOrphanInputs \cup UnlocatedInputs

\* ----------------------------------------------------------- pandas helpers
Has(df, needed) == needed \subseteq df.cols

Min(S) == CHOOSE x \in S : \A y \in S : x <= y

\* DataFrame.drop_duplicates(subset=key): the first row of every key stays.
DropDuplicates(rows, Key(_)) ==
    LET keep[i \in 0..Len(rows)] ==
            IF i = 0 THEN <<>>
            ELSE IF \E j \in 1..(i - 1) : Key(rows[j]) = Key(rows[i])
                 THEN keep[i - 1]
                 ELSE Append(keep[i - 1], rows[i])
    IN keep[Len(rows)]
Whole(r) == r

\* DataFrame.merge: for every left row, in order, one output row per matching
\* right row, in order; how = "left" keeps an unmatched left row with nulls.
Merge(left, right, On(_, _), Mk(_, _), how, nulls) ==
    LET one(l) ==
            LET m == SelectSeq(right, LAMBDA r : On(l, r))
            IN IF Len(m) = 0
               THEN IF how = "left" THEN <<Mk(l, nulls)>> ELSE <<>>
               ELSE [j \in 1..Len(m) |-> Mk(l, m[j])]
        acc[i \in 0..Len(left)] ==
            IF i = 0 THEN <<>> ELSE acc[i - 1] \o one(left[i])
    IN acc[Len(left)]

\* range(1, len(rows) + 1) inserted as the surrogate-key column.
Numbered(rows, Mk(_, _)) == [i \in 1..Len(rows) |-> Mk(i, rows[i])]

\* sorted(set(...)) of a set of integers, as a sequence.
RECURSIVE Sorted(_)
Sorted(S) == IF S = {} THEN <<>> ELSE <<Min(S)>> \o Sorted(S \ {Min(S)})

\* pd.Timestamp(f.date()) / Series.dt.normalize(): the time of day is dropped.
Normalize(ts) == ts - (ts % TicksPerDay)

Column(df, c) == [i \in 1..Len(df.rows) |-> df.rows[i][c]]
Values(seq) == {seq[i] : i \in 1..Len(seq)}

\* What a builder does: it stores a table, returns early, or raises.
Built(df) == [kind |-> "built", df |-> df]
Skipped == [kind |-> "skipped"]
Raised == [kind |-> "raised"]

\* --------------------------------------------------------------- dimensions
\* The valid timestamps of the date columns that exist (errors='coerce',
\* dropna), normalised to the day.
ValidDates(df, cols) ==
    UNION {{Normalize(df.rows[i][c]) : i \in {j \in 1..Len(df.rows) : df.rows[j][c] # Null}} :
              c \in cols \cap df.cols}

\* The timestamps are deduplicated and sorted with their time of day.
BuildDimTiempoSinNormalizar(ds) ==
    LET Raw(df, cols) ==
            UNION {{df.rows[i][c] : i \in {j \in 1..Len(df.rows) : df.rows[j][c] # Null}} :
                      c \in cols \cap df.cols}
        vac == IF "vacantes" \in DOMAIN ds
               THEN Raw(ds["vacantes"], {"FECHAINICIO", "FECHAFIN", "FECHACREACION"})
               ELSE {}
        edu == IF "educacion" \in DOMAIN ds
               THEN Raw(ds["educacion"], {"FECHAINICIO", "FECHAFIN"})
               ELSE {}
        fechas_unicas == Sorted(vac \cup edu)
    IN IF Len(fechas_unicas) = 0
       THEN Raised
       ELSE Built(Frame({"fecha_sk", "fecha"},
                        Numbered(fechas_unicas,
                                 LAMBDA i, f : [fecha_sk |-> i, fecha |-> f])))

\* The calendar attributes derived from fecha (anio, mes, dia, trimestre, ...)
\* are functions of fecha alone and are not represented.
BuildDimTiempo(ds) ==
    LET vac == IF "vacantes" \in DOMAIN ds
               THEN ValidDates(ds["vacantes"], {"FECHAINICIO", "FECHAFIN", "FECHACREACION"})
               ELSE {}
        edu == IF "educacion" \in DOMAIN ds
               THEN ValidDates(ds["educacion"], {"FECHAINICIO", "FECHAFIN"})
               ELSE {}
        fechas_unicas == Sorted(vac \cup edu)
    IN IF Len(fechas_unicas) = 0
       THEN Raised
       ELSE Built(Frame({"fecha_sk", "fecha"},
                        Numbered(fechas_unicas,
                                 LAMBDA i, f : [fecha_sk |-> i, fecha |-> f])))

Ubicaciones(ds, name, fuente) ==
    IF name \in DOMAIN ds /\ Has(ds[name], LocCols)
    THEN [i \in 1..Len(ds[name].rows) |->
             [DEPARTAMENTO |-> ds[name].rows[i].DEPARTAMENTO,
              PROVINCIA |-> ds[name].rows[i].PROVINCIA,
              DISTRITO |-> ds[name].rows[i].DISTRITO,
              UBIGEO |-> ds[name].rows[i].UBIGEO,
              fuente |-> fuente]]
    ELSE <<>>

\* The missing value is left as it is.
FillNaNothing(v, fill) == v

\* Series.fillna(fill)
FillNa(v, fill) == IF v = NaN THEN fill ELSE v

BuildDimUbicacion(ds) ==
    LET none == ~("postulante" \in DOMAIN ds /\ Has(ds["postulante"], LocCols))
                /\ ~("vacantes" \in DOMAIN ds /\ Has(ds["vacantes"], LocCols))
        all == Ubicaciones(ds, "postulante", "postulante")
               \o Ubicaciones(ds, "vacantes", "vacante")
        uniq == DropDuplicates(all, LAMBDA r : r.UBIGEO)
    IN IF none
       THEN Raised
       ELSE Built(Frame({"ubicacion_sk", "departamento", "provincia", "distrito",
                         "ubigeo", "fuente"},
                        Numbered(uniq, LAMBDA i, r :
                            [ubicacion_sk |-> i,
                             departamento |-> FillNa(r.DEPARTAMENTO, "SIN_ESPECIFICAR"),
                             provincia |-> FillNa(r.PROVINCIA, "SIN_ESPECIFICAR"),
                             distrito |-> FillNa(r.DISTRITO, "SIN_ESPECIFICAR"),
                             ubigeo |-> r.UBIGEO,
                             fuente |-> r.fuente])))

Renamed(cols, map) == {IF c \in DOMAIN map THEN map[c] ELSE c : c \in cols}

\* Of the rows of one applicant ID the last one is kept (keep='last').
BuildDimPostulanteKeepLast(ds) ==
    IF "postulante" \notin DOMAIN ds THEN Skipped
    ELSE LET df_post == ds["postulante"]
             cols_available == {"ID_POSTULANTE", "EDAD", "SEXO", "UBIGEO",
                                "ESTADO_CONADIS"} \cap df_post.cols
             reversed == [i \in 1..Len(df_post.rows) |->
                             df_post.rows[Len(df_post.rows) + 1 - i]]
             last == DropDuplicates(reversed, LAMBDA r : r.ID_POSTULANTE)
             uniq == [i \in 1..Len(last) |-> last[Len(last) + 1 - i]]
         IN IF "ID_POSTULANTE" \notin df_post.cols
            THEN Raised
            ELSE Built(Frame({"postulante_sk"} \cup
                             Renamed(cols_available,
                                     [ID_POSTULANTE |-> "id_postulante_original",
                                      EDAD |-> "edad", SEXO |-> "sexo",
                                      UBIGEO |-> "ubigeo",
                                      ESTADO_CONADIS |-> "estado_conadis"]),
                             Numbered(uniq, LAMBDA i, r :
                                 [postulante_sk |-> i,
                                  id_postulante_original |-> r.ID_POSTULANTE,
                                  edad |-> r.EDAD, sexo |-> r.SEXO,
                                  ubigeo |-> r.UBIGEO,
                                  estado_conadis |-> r.ESTADO_CONADIS])))

BuildDimPostulante(ds) ==
    IF "postulante" \notin DOMAIN ds THEN Skipped
    ELSE LET df_post == ds["postulante"]
             cols_available == {"ID_POSTULANTE", "EDAD", "SEXO", "UBIGEO",
                                "ESTADO_CONADIS"} \cap df_post.cols
             uniq == DropDuplicates(df_post.rows, LAMBDA r : r.ID_POSTULANTE)
         IN IF "ID_POSTULANTE" \notin df_post.cols
            THEN Raised
            ELSE Built(Frame({"postulante_sk"} \cup
                             Renamed(cols_available,
                                     [ID_POSTULANTE |-> "id_postulante_original",
                                      EDAD |-> "edad", SEXO |-> "sexo",
                                      UBIGEO |-> "ubigeo",
                                      ESTADO_CONADIS |-> "estado_conadis"]),
                             Numbered(uniq, LAMBDA i, r :
                                 [postulante_sk |-> i,
                                  id_postulante_original |-> r.ID_POSTULANTE,
                                  edad |-> r.EDAD, sexo |-> r.SEXO,
                                  ubigeo |-> r.UBIGEO,
                                  estado_conadis |-> r.ESTADO_CONADIS])))

BuildDimEmpresa(ds) ==
    IF "vacantes" \notin DOMAIN ds THEN Skipped
    ELSE IF "IDEMPRESA" \notin ds["vacantes"].cols THEN Skipped
    ELSE LET uniq == DropDuplicates(Column(ds["vacantes"], "IDEMPRESA"), Whole)
         IN Built(Frame({"empresa_sk", "id_empresa_original"},
                        Numbered(uniq, LAMBDA i, e :
                            [empresa_sk |-> i, id_empresa_original |-> e])))

\* Series.map of the truthy/falsy encodings, then fillna(False).
SinExperiencia(v) ==
    IF v \in {"SI", "S", "1"} THEN "True"
    ELSE IF v \in {"NO", "N", "0"} THEN "False"
    ELSE FillNa(NaN, "False")

\* pd.to_numeric(errors='coerce') followed by fillna(0).
TiempoExperiencia(v) == IF v = Null THEN 0 ELSE v

BuildDimVacante(ds) ==
    IF "vacantes" \notin DOMAIN ds THEN Skipped
    ELSE LET df_vac == ds["vacantes"]
             uniq == DropDuplicates(Column(df_vac, "AVISOID"), Whole)
             keyed == Numbered(uniq, LAMBDA i, a :
                          [vacante_sk |-> i, id_vacante_original |-> a])
             merged == Merge(keyed, df_vac.rows,
                             LAMBDA l, r : l.id_vacante_original = r.AVISOID,
                             LAMBDA l, r :
                                 [vacante_sk |-> l.vacante_sk,
                                  id_vacante_original |-> l.id_vacante_original,
                                  nombre_aviso |-> r.NOMBREAVISO,
                                  num_vacantes |-> r.VACANTES,
                                  sector |-> r.SECTOR,
                                  ubigeo |-> r.UBIGEO,
                                  sin_experiencia |->
                                      IF "SINEXPERIENCIA" \in df_vac.cols
                                      THEN SinExperiencia(r.SINEXPERIENCIA)
                                      ELSE NaN,
                                  tiempo_experiencia |->
                                      IF "TIEMPOEXPERIENCIA" \in df_vac.cols
                                      THEN TiempoExperiencia(r.TIEMPOEXPERIENCIA)
                                      ELSE Null],
                             "left", VacRow(Null, "sparse"))
             optional_cols == {"NOMBREAVISO", "VACANTES", "SECTOR", "UBIGEO",
                               "SINEXPERIENCIA", "TIEMPOEXPERIENCIA"} \cap df_vac.cols
         IN IF "AVISOID" \notin df_vac.cols
            THEN Raised
            ELSE Built(Frame({"vacante_sk", "id_vacante_original"} \cup
                             Renamed(optional_cols,
                                     [NOMBREAVISO |-> "nombre_aviso",
                                      VACANTES |-> "num_vacantes",
                                      SECTOR |-> "sector", UBIGEO |-> "ubigeo",
                                      SINEXPERIENCIA |-> "sin_experiencia",
                                      TIEMPOEXPERIENCIA |-> "tiempo_experiencia"]),
                             merged))

\* The competency names are de-duplicated and the null name is dropped, as
\* the career and institution builders do.
BuildDimCompetenciaDropNa(ds) ==
    IF "competencias" \notin DOMAIN ds THEN Skipped
    ELSE IF "NOMBRECOMPETENCIA" \notin ds["competencias"].cols THEN Skipped
    ELSE LET uniq == SelectSeq(DropDuplicates(Column(ds["competencias"],
                                                     "NOMBRECOMPETENCIA"), Whole),
                               LAMBDA n : n # NaN)
         IN Built(Frame({"competencia_sk", "nombre_competencia"},
                        Numbered(uniq, LAMBDA i, n :
                            [competencia_sk |-> i, nombre_competencia |-> n])))

BuildDimCompetencia(ds) ==
    IF "competencias" \notin DOMAIN ds THEN Skipped
    ELSE IF "NOMBRECOMPETENCIA" \notin ds["competencias"].cols THEN Skipped
    ELSE LET uniq == DropDuplicates(Column(ds["competencias"], "NOMBRECOMPETENCIA"),
                                    Whole)
         IN Built(Frame({"competencia_sk", "nombre_competencia"},
                        Numbered(uniq, LAMBDA i, n :
                            [competencia_sk |-> i, nombre_competencia |-> n])))

\* groupby('CARRERA')['GRADO'].first(): the first non-null GRADO of the career.
GradoPorCarrera(df, carrera) ==
    LET g == SelectSeq(df.rows, LAMBDA r : r.CARRERA = carrera /\ r.GRADO # NaN)
    IN IF Len(g) = 0 THEN NaN ELSE g[1].GRADO

BuildDimCarrera(ds) ==
    IF "educacion" \notin DOMAIN ds THEN Skipped
    ELSE IF "CARRERA" \notin ds["educacion"].cols THEN Skipped
    ELSE LET df == ds["educacion"]
             uniq == SelectSeq(DropDuplicates(Column(df, "CARRERA"), Whole),
                               LAMBDA c : c # NaN)
         IN Built(Frame({"carrera_sk", "nombre_carrera"} \cup ({"GRADO"} \cap df.cols),
                        Numbered(uniq, LAMBDA i, c :
                            [carrera_sk |-> i, nombre_carrera |-> c,
                             GRADO |-> IF "GRADO" \in df.cols
                                       THEN GradoPorCarrera(df, c) ELSE NaN])))

BuildDimInstitucion(ds) ==
    IF "educacion" \notin DOMAIN ds THEN Skipped
    ELSE IF "INSTITUCION" \notin ds["educacion"].cols THEN Skipped
    ELSE LET uniq == SelectSeq(DropDuplicates(Column(ds["educacion"], "INSTITUCION"),
                                              Whole),
                               LAMBDA c : c # NaN)
         IN Built(Frame({"institucion_sk", "nombre_institucion"},
                        Numbered(uniq, LAMBDA i, c :
                            [institucion_sk |-> i, nombre_institucion |-> c])))

\* ----------------------------------------------------------- reconciliation
\* set(df['AVISOID'].dropna().unique())
Avisos(df) == Values(Column(df, "AVISOID")) \ {Null}

\* The orphan set computed against the real postings only, so that an ID that
\* is present only as a placeholder counts as an orphan again.
HuerfanosSinPlaceholders(ds) ==
    Avisos(ds["competencias"])
    \ Avisos(Frame(ds["vacantes"].cols,
                   SelectSeq(ds["vacantes"].rows,
                             LAMBDA r : r.NOMBREAVISO # "REGISTRO_HUERFANO_PRESERVADO")))

Huerfanos(ds) == Avisos(ds["competencias"]) \ Avisos(ds["vacantes"])

\* A placeholder whose end date is the day after its start date.
PlaceholderFechaFinPosterior(id, fecha) ==
    [AVISOID |-> id, NOMBREAVISO |-> "REGISTRO_HUERFANO_PRESERVADO", VACANTES |-> 0,
     SECTOR |-> "SIN_CLASIFICAR", UBIGEO |-> "000000", SINEXPERIENCIA |-> "NO",
     TIEMPOEXPERIENCIA |-> 0, IDEMPRESA |-> 0, DEPARTAMENTO |-> "SIN_ESPECIFICAR",
     PROVINCIA |-> "SIN_ESPECIFICAR", DISTRITO |-> "SIN_ESPECIFICAR",
     FECHAINICIO |-> fecha, FECHAFIN |-> fecha + TicksPerDay, FECHACREACION |-> fecha,
     ACTIVO |-> "False"]

\* One row of the placeholder DataFrame; fecha is datetime.now().date().
Placeholder(id, fecha) ==
    [AVISOID |-> id, NOMBREAVISO |-> "REGISTRO_HUERFANO_PRESERVADO", VACANTES |-> 0,
     SECTOR |-> "SIN_CLASIFICAR", UBIGEO |-> "000000", SINEXPERIENCIA |-> "NO",
     TIEMPOEXPERIENCIA |-> 0, IDEMPRESA |-> 0, DEPARTAMENTO |-> "SIN_ESPECIFICAR",
     PROVINCIA |-> "SIN_ESPECIFICAR", DISTRITO |-> "SIN_ESPECIFICAR",
     FECHAINICIO |-> fecha, FECHAFIN |-> fecha, FECHACREACION |-> fecha,
     ACTIVO |-> "False"]

\* list(huerfanos): the elements of the set in an order the set decides.
Orderings(S) ==
    {o \in [1..Cardinality(S) -> S] : \A i, j \in DOMAIN o : i # j => o[i] # o[j]}

\* The placeholders are put in front of the postings.
ConcatPrepend(df, extra) == Frame(df.cols \cup extra.cols, extra.rows \o df.rows)

\* pd.concat([df_vac, vacante_placeholder], ignore_index=True): the columns
\* are the union; the rows of df_vac keep their order and come first.
Concat(df, extra) == Frame(df.cols \cup extra.cols, df.rows \o extra.rows)

\* The dates datetime.now().date() may return.
RunDates == {TicksPerDay * 1, TicksPerDay * 6}

Pct(count, total) ==
    IF total > 0 THEN [num |-> count * 100, den |-> total] ELSE [num |-> 0, den |-> 1]

\* The statistics are written only inside the branch that found orphans.
OrphanStatsSoloConHuerfanos(ds) ==
    IF Huerfanos(ds) = {} THEN <<>>
    ELSE [competencias_huerfanos |-> Cardinality(Huerfanos(ds)),
          competencias_total |-> Cardinality(Avisos(ds["competencias"])),
          competencias_pct |-> Pct(Cardinality(Huerfanos(ds)),
                                   Cardinality(Avisos(ds["competencias"])))]

OrphanStats(ds) ==
    [competencias_huerfanos |-> Cardinality(Huerfanos(ds)),
     competencias_total |-> Cardinality(Avisos(ds["competencias"])),
     competencias_pct |-> Pct(Cardinality(Huerfanos(ds)),
                              Cardinality(Avisos(ds["competencias"])))]

\* -------------------------------------------------------------------- facts
\* The right-hand side of a left merge that found no match: nulls.
NoMatch ==
    [postulante_sk |-> Null, ubicacion_sk |-> Null, carrera_sk |-> Null,
     institucion_sk |-> Null, vacante_sk |-> Null, empresa_sk |-> Null,
     competencia_sk |-> Null, fecha_sk |-> Null]

\* dim_tiempo['fecha_sk'].min()
PrimeraFechaSk(dims) == Min(Values(Column(dims["dim_tiempo"], "fecha_sk")))

\* The location is joined with how='inner': an applicant whose geocode has no
\* row in dim_ubicacion is dropped.
BuildHechosPostulanteInnerUbicacion(ds, dims) ==
    IF "postulante" \notin DOMAIN ds THEN Skipped
    ELSE IF "dim_postulante" \notin DOMAIN dims THEN Raised
    ELSE IF "ID_POSTULANTE" \notin ds["postulante"].cols THEN Raised
    ELSE LET df_post == ds["postulante"]
             con_ub == "dim_ubicacion" \in DOMAIN dims /\ "UBIGEO" \in df_post.cols
             con_fecha == "dim_tiempo" \in DOMAIN dims
             h1 == Merge(df_post.rows, dims["dim_postulante"].rows,
                         LAMBDA l, r : l.ID_POSTULANTE = r.id_postulante_original,
                         LAMBDA l, r : [src |-> l, postulante_sk |-> r.postulante_sk],
                         "left", NoMatch)
             h2 == IF con_ub
                   THEN Merge(h1, dims["dim_ubicacion"].rows,
                              LAMBDA l, r : l.src.UBIGEO = r.ubigeo,
                              LAMBDA l, r : [postulante_sk |-> l.postulante_sk,
                                             ubicacion_sk |-> r.ubicacion_sk],
                              "inner", NoMatch)
                   ELSE [i \in 1..Len(h1) |-> [postulante_sk |-> h1[i].postulante_sk,
                                               ubicacion_sk |-> Null]]
             h3 == [i \in 1..Len(h2) |->
                       [postulante_sk |-> h2[i].postulante_sk,
                        ubicacion_sk |-> h2[i].ubicacion_sk,
                        fecha_registro_sk |->
                            IF con_fecha THEN PrimeraFechaSk(dims) ELSE Null]]
         IN Built(Frame({"postulante_sk"}
                        \cup (IF con_ub THEN {"ubicacion_sk"} ELSE {})
                        \cup (IF con_fecha THEN {"fecha_registro_sk"} ELSE {}),
                        DropDuplicates(h3, Whole)))

BuildHechosPostulante(ds, dims) ==
    IF "postulante" \notin DOMAIN ds THEN Skipped
    ELSE IF "dim_postulante" \notin DOMAIN dims THEN Raised
    ELSE IF "ID_POSTULANTE" \notin ds["postulante"].cols THEN Raised
    ELSE LET df_post == ds["postulante"]
             con_ub == "dim_ubicacion" \in DOMAIN dims /\ "UBIGEO" \in df_post.cols
             con_fecha == "dim_tiempo" \in DOMAIN dims
             h1 == Merge(df_post.rows, dims["dim_postulante"].rows,
                         LAMBDA l, r : l.ID_POSTULANTE = r.id_postulante_original,
                         LAMBDA l, r : [src |-> l, postulante_sk |-> r.postulante_sk],
                         "left", NoMatch)
             h2 == IF con_ub
                   THEN Merge(h1, dims["dim_ubicacion"].rows,
                              LAMBDA l, r : l.src.UBIGEO = r.ubigeo,
                              LAMBDA l, r : [postulante_sk |-> l.postulante_sk,
                                             ubicacion_sk |-> r.ubicacion_sk],
                              "left", NoMatch)
                   ELSE [i \in 1..Len(h1) |-> [postulante_sk |-> h1[i].postulante_sk,
                                               ubicacion_sk |-> Null]]
             h3 == [i \in 1..Len(h2) |->
                       [postulante_sk |-> h2[i].postulante_sk,
                        ubicacion_sk |-> h2[i].ubicacion_sk,
                        fecha_registro_sk |->
                            IF con_fecha THEN PrimeraFechaSk(dims) ELSE Null]]
         IN Built(Frame({"postulante_sk"}
                        \cup (IF con_ub THEN {"ubicacion_sk"} ELSE {})
                        \cup (IF con_fecha THEN {"fecha_registro_sk"} ELSE {}),
                        DropDuplicates(h3, Whole)))

\* The applicant is joined with how='left': an education record whose
\* applicant is unknown is kept with a null postulante_sk.
BuildHechosFormacionLeftPostulante(ds, dims) ==
    IF "educacion" \notin DOMAIN ds THEN Skipped
    ELSE IF "dim_postulante" \notin DOMAIN dims THEN Raised
    ELSE IF "ID_POSTULANTE" \notin ds["educacion"].cols THEN Raised
    ELSE LET df_edu == ds["educacion"]
             con_carrera == "dim_carrera" \in DOMAIN dims /\ "CARRERA" \in df_edu.cols
             con_inst == "dim_institucion" \in DOMAIN dims
                         /\ "INSTITUCION" \in df_edu.cols
             h1 == Merge(df_edu.rows, dims["dim_postulante"].rows,
                         LAMBDA l, r : l.ID_POSTULANTE = r.id_postulante_original,
                         LAMBDA l, r : [src |-> l, postulante_sk |-> r.postulante_sk],
                         "left", NoMatch)
             h2 == IF con_carrera
                   THEN Merge(h1, dims["dim_carrera"].rows,
                              LAMBDA l, r : l.src.CARRERA = r.nombre_carrera,
                              LAMBDA l, r : [src |-> l.src,
                                             postulante_sk |-> l.postulante_sk,
                                             carrera_sk |-> r.carrera_sk],
                              "left", NoMatch)
                   ELSE [i \in 1..Len(h1) |-> [src |-> h1[i].src,
                                               postulante_sk |-> h1[i].postulante_sk,
                                               carrera_sk |-> Null]]
             h3 == IF con_inst
                   THEN Merge(h2, dims["dim_institucion"].rows,
                              LAMBDA l, r : l.src.INSTITUCION = r.nombre_institucion,
                              LAMBDA l, r : [postulante_sk |-> l.postulante_sk,
                                             carrera_sk |-> l.carrera_sk,
                                             institucion_sk |-> r.institucion_sk],
                              "left", NoMatch)
                   ELSE [i \in 1..Len(h2) |-> [postulante_sk |-> h2[i].postulante_sk,
                                               carrera_sk |-> h2[i].carrera_sk,
                                               institucion_sk |-> Null]]
         IN Built(Frame({"postulante_sk"}
                        \cup (IF con_carrera THEN {"carrera_sk"} ELSE {})
                        \cup (IF con_inst THEN {"institucion_sk"} ELSE {}),
                        DropDuplicates(h3, Whole)))

BuildHechosFormacion(ds, dims) ==
    IF "educacion" \notin DOMAIN ds THEN Skipped
    ELSE IF "dim_postulante" \notin DOMAIN dims THEN Raised
    ELSE IF "ID_POSTULANTE" \notin ds["educacion"].cols THEN Raised
    ELSE LET df_edu == ds["educacion"]
             con_carrera == "dim_carrera" \in DOMAIN dims /\ "CARRERA" \in df_edu.cols
             con_inst == "dim_institucion" \in DOMAIN dims
                         /\ "INSTITUCION" \in df_edu.cols
             h1 == Merge(df_edu.rows, dims["dim_postulante"].rows,
                         LAMBDA l, r : l.ID_POSTULANTE = r.id_postulante_original,
                         LAMBDA l, r : [src |-> l, postulante_sk |-> r.postulante_sk],
                         "inner", NoMatch)
             h2 == IF con_carrera
                   THEN Merge(h1, dims["dim_carrera"].rows,
                              LAMBDA l, r : l.src.CARRERA = r.nombre_carrera,
                              LAMBDA l, r : [src |-> l.src,
                                             postulante_sk |-> l.postulante_sk,
                                             carrera_sk |-> r.carrera_sk],
                              "left", NoMatch)
                   ELSE [i \in 1..Len(h1) |-> [src |-> h1[i].src,
                                               postulante_sk |-> h1[i].postulante_sk,
                                               carrera_sk |-> Null]]
             h3 == IF con_inst
                   THEN Merge(h2, dims["dim_institucion"].rows,
                              LAMBDA l, r : l.src.INSTITUCION = r.nombre_institucion,
                              LAMBDA l, r : [postulante_sk |-> l.postulante_sk,
                                             carrera_sk |-> l.carrera_sk,
                                             institucion_sk |-> r.institucion_sk],
                              "left", NoMatch)
                   ELSE [i \in 1..Len(h2) |-> [postulante_sk |-> h2[i].postulante_sk,
                                               carrera_sk |-> h2[i].carrera_sk,
                                               institucion_sk |-> Null]]
         IN Built(Frame({"postulante_sk"}
                        \cup (IF con_carrera THEN {"carrera_sk"} ELSE {})
                        \cup (IF con_inst THEN {"institucion_sk"} ELSE {}),
                        DropDuplicates(h3, Whole)))

\* The merged keys are kept as they come, one per experience record.
BuildHechosExperienciaConDuplicados(ds, dims) ==
    IF "experiencias" \notin DOMAIN ds THEN Skipped
    ELSE IF "dim_postulante" \notin DOMAIN dims THEN Raised
    ELSE IF "ID_POSTULANTE" \notin ds["experiencias"].cols THEN Raised
    ELSE LET h1 == Merge(ds["experiencias"].rows, dims["dim_postulante"].rows,
                         LAMBDA l, r : l.ID_POSTULANTE = r.id_postulante_original,
                         LAMBDA l, r : [postulante_sk |-> r.postulante_sk],
                         "inner", NoMatch)
         IN Built(Frame({"postulante_sk"},
                        SelectSeq(h1, LAMBDA r : r.postulante_sk # Null)))

\* The fact keeps the applicant's natural key where the surrogate key belongs.
BuildHechosExperienciaNaturalKey(ds, dims) ==
    IF "experiencias" \notin DOMAIN ds THEN Skipped
    ELSE IF "dim_postulante" \notin DOMAIN dims THEN Raised
    ELSE IF "ID_POSTULANTE" \notin ds["experiencias"].cols THEN Raised
    ELSE LET h1 == Merge(ds["experiencias"].rows, dims["dim_postulante"].rows,
                         LAMBDA l, r : l.ID_POSTULANTE = r.id_postulante_original,
                         LAMBDA l, r : [postulante_sk |-> l.ID_POSTULANTE],
                         "inner", NoMatch)
         IN Built(Frame({"postulante_sk"},
                        SelectSeq(DropDuplicates(h1, Whole),
                                  LAMBDA r : r.postulante_sk # Null)))

BuildHechosExperiencia(ds, dims) ==
    IF "experiencias" \notin DOMAIN ds THEN Skipped
    ELSE IF "dim_postulante" \notin DOMAIN dims THEN Raised
    ELSE IF "ID_POSTULANTE" \notin ds["experiencias"].cols THEN Raised
    ELSE LET h1 == Merge(ds["experiencias"].rows, dims["dim_postulante"].rows,
                         LAMBDA l, r : l.ID_POSTULANTE = r.id_postulante_original,
                         LAMBDA l, r : [postulante_sk |-> r.postulante_sk],
                         "inner", NoMatch)
         IN Built(Frame({"postulante_sk"},
                        SelectSeq(DropDuplicates(h1, Whole),
                                  LAMBDA r : r.postulante_sk # Null)))

\* The key of an unmatched creation date is left null.
FechaPublicacionSkSinDefault(fecha_sk, primera_fecha_sk) == fecha_sk

\* hechos['fecha_sk'].fillna(primera_fecha_sk)
FechaPublicacionSk(fecha_sk, primera_fecha_sk) ==
    IF fecha_sk = Null THEN primera_fecha_sk ELSE fecha_sk

BuildHechosVacante(ds, dims) ==
    IF "vacantes" \notin DOMAIN ds THEN Skipped
    ELSE IF "dim_vacante" \notin DOMAIN dims THEN Raised
    ELSE IF "AVISOID" \notin ds["vacantes"].cols THEN Raised
    ELSE LET df_vac == ds["vacantes"]
             con_ub == "dim_ubicacion" \in DOMAIN dims /\ "UBIGEO" \in df_vac.cols
             con_emp == "dim_empresa" \in DOMAIN dims /\ "IDEMPRESA" \in df_vac.cols
             con_fecha == "dim_tiempo" \in DOMAIN dims
                          /\ "FECHACREACION" \in df_vac.cols
             \* 'ACTIVO' is appended to cols_final and then renamed to 'activo',
             \* so the selection of the final columns leaves the column out.
             con_activo == "ACTIVO" \notin df_vac.cols
             h1 == Merge(df_vac.rows, dims["dim_vacante"].rows,
                         LAMBDA l, r : l.AVISOID = r.id_vacante_original,
                         LAMBDA l, r : [src |-> l, vacante_sk |-> r.vacante_sk],
                         "inner", NoMatch)
             h2 == IF con_ub
                   THEN Merge(h1, dims["dim_ubicacion"].rows,
                              LAMBDA l, r : l.src.UBIGEO = r.ubigeo,
                              LAMBDA l, r : [src |-> l.src, vacante_sk |-> l.vacante_sk,
                                             ubicacion_sk |-> r.ubicacion_sk],
                              "left", NoMatch)
                   ELSE [i \in 1..Len(h1) |-> [src |-> h1[i].src,
                                               vacante_sk |-> h1[i].vacante_sk,
                                               ubicacion_sk |-> Null]]
             h3 == IF con_emp
                   THEN Merge(h2, dims["dim_empresa"].rows,
                              LAMBDA l, r : l.src.IDEMPRESA = r.id_empresa_original,
                              LAMBDA l, r : [src |-> l.src, vacante_sk |-> l.vacante_sk,
                                             ubicacion_sk |-> l.ubicacion_sk,
                                             empresa_sk |-> r.empresa_sk],
                              "left", NoMatch)
                   ELSE [i \in 1..Len(h2) |-> [src |-> h2[i].src,
                                               vacante_sk |-> h2[i].vacante_sk,
                                               ubicacion_sk |-> h2[i].ubicacion_sk,
                                               empresa_sk |-> Null]]
             h4 == IF con_fecha
                   THEN Merge(h3, dims["dim_tiempo"].rows,
                              LAMBDA l, r : l.src.FECHACREACION # Null
                                            /\ Normalize(l.src.FECHACREACION) = r.fecha,
                              LAMBDA l, r :
                                  [vacante_sk |-> l.vacante_sk,
                                   ubicacion_sk |-> l.ubicacion_sk,
                                   empresa_sk |-> l.empresa_sk,
                                   fecha_publicacion_sk |->
                                       FechaPublicacionSk(r.fecha_sk,
                                                          PrimeraFechaSk(dims))],
                              "left", NoMatch)
                   ELSE [i \in 1..Len(h3) |-> [vacante_sk |-> h3[i].vacante_sk,
                                               ubicacion_sk |-> h3[i].ubicacion_sk,
                                               empresa_sk |-> h3[i].empresa_sk,
                                               fecha_publicacion_sk |-> Null]]
             h5 == [i \in 1..Len(h4) |->
                       [vacante_sk |-> h4[i].vacante_sk,
                        ubicacion_sk |-> h4[i].ubicacion_sk,
                        empresa_sk |-> h4[i].empresa_sk,
                        fecha_publicacion_sk |-> h4[i].fecha_publicacion_sk,
                        activo |-> IF con_activo THEN "True" ELSE NaN]]
             \* dropna() over the columns that were selected
             completo(r) == /\ r.vacante_sk # Null
                            /\ con_ub => r.ubicacion_sk # Null
                            /\ con_emp => r.empresa_sk # Null
                            /\ con_fecha => r.fecha_publicacion_sk # Null
         IN Built(Frame({"vacante_sk"}
                        \cup (IF con_ub THEN {"ubicacion_sk"} ELSE {})
                        \cup (IF con_emp THEN {"empresa_sk"} ELSE {})
                        \cup (IF con_fecha THEN {"fecha_publicacion_sk"} ELSE {})
                        \cup (IF con_activo THEN {"activo"} ELSE {}),
                        SelectSeq(DropDuplicates(h5, Whole), completo)))

BuildHechosCompetenciaRequerida(ds, dims) ==
    IF "competencias" \notin DOMAIN ds THEN Skipped
    ELSE IF "dim_vacante" \notin DOMAIN dims THEN Raised
    ELSE IF "AVISOID" \notin ds["competencias"].cols THEN Raised
    ELSE IF ~("dim_competencia" \in DOMAIN dims
              /\ "NOMBRECOMPETENCIA" \in ds["competencias"].cols) THEN Raised
    ELSE LET h1 == Merge(ds["competencias"].rows, dims["dim_vacante"].rows,
                         LAMBDA l, r : l.AVISOID = r.id_vacante_original,
                         LAMBDA l, r : [src |-> l, vacante_sk |-> r.vacante_sk],
                         "inner", NoMatch)
             h2 == Merge(h1, dims["dim_competencia"].rows,
                         LAMBDA l, r : l.src.NOMBRECOMPETENCIA = r.nombre_competencia,
                         LAMBDA l, r : [vacante_sk |-> l.vacante_sk,
                                        competencia_sk |-> r.competencia_sk],
                         "inner", NoMatch)
         IN Built(Frame({"vacante_sk", "competencia_sk"},
                        SelectSeq(h2, LAMBDA r : r.vacante_sk # Null
                                                 /\ r.competencia_sk # Null)))

\* ------------------------------------------------------------ state machine
VARIABLES
    datasets,       \* DataTransformer.datasets (the caller's mapping, shared)
    dimensions,     \* DataTransformer.dimensions
    facts,          \* DataTransformer.facts
    orphan_stats,   \* DataTransformer.orphan_stats
    pc,             \* the statement of transform_all that runs next
    result,         \* what the latest transform_all returned
    runs,           \* the number of calls of transform_all
    original,       \* history: the mapping the transformer was constructed on
    antes,          \* history: the mapping as the latest reconciliation found it
    trace,          \* history: the steps this call of transform_all has entered
    primera,        \* history: the tables the first call of transform_all returned
    cleaned_exists, \* DataExtractor.cleaned_path.exists()
    cleaned,        \* the files of data/cleaned, by dataset name
    extractor,      \* DataExtractor.datasets
    extract_pc,     \* the statement of the extractor that runs next
    extracted,      \* what extract_all returned
    main_pc,        \* the statement of the transform script's main that runs next
    exit_code,      \* what main returned as its status
    integrated,     \* the files of data/integrated, by table name
    load_pc,        \* the statement of load_data_warehouse that runs next
    connection,     \* the state of the NeonDBConnection
    schema_created, \* create_star_schema.sql has been executed
    loaded,         \* the tables loaded into the database, in load order
    load_result     \* what load_data_warehouse returned

transformVars == <<datasets, dimensions, facts, orphan_stats, pc, result, runs,
                   original, antes, trace, primera>>
extractVars == <<cleaned_exists, cleaned, extractor, extract_pc, extracted>>
mainVars == <<main_pc, exit_code, integrated>>
loadVars == <<load_pc, connection, schema_created, loaded, load_result>>

vars == <<transformVars, extractVars, mainVars, loadVars>>

EmptyDict == [x \in {} |-> 0]

\* The parts of the pipeline that a specification does not run.
NoExtractor ==
    /\ cleaned_exists = TRUE
    /\ cleaned = EmptyDict
    /\ extractor = EmptyDict
    /\ extract_pc = "none"
    /\ extracted = "unset"
NoMain ==
    /\ main_pc = "none"
    /\ exit_code = "unset"
    /\ integrated = EmptyDict
NoLoader ==
    /\ load_pc = "none"
    /\ connection = "closed"
    /\ schema_created = FALSE
    /\ loaded = <<>>
    /\ load_result = "unset"

DimensionSteps == <<"dim_tiempo", "dim_ubicacion", "dim_postulante", "dim_empresa",
                    "dim_vacante", "dim_competencia", "dim_carrera",
                    "dim_institucion">>
FactSteps == <<"hechos_postulante", "hechos_formacion", "hechos_experiencia",
               "hechos_vacante", "hechos_competencia_requerida">>
\* A call order in which the first fact builder is called one line too early.
StepsFactTooEarly ==
    SubSeq(DimensionSteps, 1, 7) \o <<"hechos_postulante", "dim_institucion", "reconcile">>
    \o SubSeq(FactSteps, 2, 5) \o <<"log_summary">>
\* The order of the calls in transform_all, _build_all_dimensions and
\* _build_all_facts.
Steps == DimensionSteps \o <<"reconcile">> \o FactSteps \o <<"log_summary">>
After(step) == Steps[(CHOOSE i \in 1..Len(Steps) : Steps[i] = step) + 1]

\* DataTransformer.__init__
Init ==
    /\ datasets \in Inputs
    /\ original = datasets
    /\ primera = EmptyDict
    /\ antes = datasets
    /\ dimensions = EmptyDict
    /\ facts = EmptyDict
    /\ orphan_stats = EmptyDict
    /\ pc = "idle"
    /\ result = "unset"
    /\ runs = 0
    /\ trace = <<>>
    /\ NoExtractor
    /\ NoMain
    /\ NoLoader

\* transform_all is entered.
transform_all ==
    /\ pc = "idle"
    /\ runs < MaxRuns
    /\ runs' = runs + 1
    /\ pc' = Steps[1]
    /\ result' = "unset"
    /\ trace' = <<>>
    /\ UNCHANGED <<datasets, dimensions, facts, orphan_stats, original, antes, primera>>
    /\ UNCHANGED <<extractVars, mainVars, loadVars>>

\* The except branch hands out the tables built so far.
ExceptReturnsTables ==
    /\ pc' = "idle"
    /\ result' = "ok"

\* except Exception: return None, None
Except ==
    /\ pc' = "idle"
    /\ result' = "none"

\* One builder of _build_all_dimensions.
DimensionStep(step, out) ==
    /\ pc = step
    /\ IF out.kind = "raised"
       THEN Except /\ UNCHANGED dimensions
       ELSE /\ pc' = After(step)
            /\ result' = result
            /\ dimensions' = IF out.kind = "built"
                             THEN Put(dimensions, step, out.df)
                             ELSE dimensions
    /\ trace' = Append(trace, step)
    /\ UNCHANGED <<datasets, facts, orphan_stats, runs, original, antes, primera>>
    /\ UNCHANGED <<extractVars, mainVars, loadVars>>

build_dim_tiempo == DimensionStep("dim_tiempo", BuildDimTiempo(datasets))
build_dim_ubicacion == DimensionStep("dim_ubicacion", BuildDimUbicacion(datasets))
build_dim_postulante == DimensionStep("dim_postulante", BuildDimPostulante(datasets))
build_dim_empresa == DimensionStep("dim_empresa", BuildDimEmpresa(datasets))
build_dim_vacante == DimensionStep("dim_vacante", BuildDimVacante(datasets))
build_dim_competencia == DimensionStep("dim_competencia", BuildDimCompetencia(datasets))
build_dim_carrera == DimensionStep("dim_carrera", BuildDimCarrera(datasets))
build_dim_institucion == DimensionStep("dim_institucion", BuildDimInstitucion(datasets))

reconcile_orphans ==
    /\ pc = "reconcile"
    /\ antes' = datasets
    /\ trace' = Append(trace, "reconcile")
    /\ IF ~({"competencias", "vacantes"} \subseteq DOMAIN datasets)
       THEN /\ pc' = After("reconcile")
            /\ result' = result
            /\ UNCHANGED <<datasets, orphan_stats>>
       ELSE IF "AVISOID" \notin datasets["competencias"].cols
               \/ "AVISOID" \notin datasets["vacantes"].cols
       THEN Except /\ UNCHANGED <<datasets, orphan_stats>>
       ELSE \E fecha_placeholder \in RunDates :
            \E orden \in Orderings(Huerfanos(datasets)) :
               LET vacante_placeholder ==
                       Frame(VacCols,
                             [i \in 1..Len(orden) |->
                                 Placeholder(orden[i], fecha_placeholder)])
                   stats == OrphanStats(datasets)
               IN /\ datasets' =
                        IF Huerfanos(datasets) # {}
                        THEN Put(datasets, "vacantes",
                                 Concat(datasets["vacantes"], vacante_placeholder))
                        ELSE datasets
                  /\ orphan_stats' =
                        [k \in DOMAIN orphan_stats \cup DOMAIN stats |->
                            IF k \in DOMAIN stats THEN stats[k] ELSE orphan_stats[k]]
                  /\ pc' = After("reconcile")
                  /\ result' = result
    /\ UNCHANGED <<dimensions, facts, runs, original, primera>>
    /\ UNCHANGED <<extractVars, mainVars, loadVars>>

\* One builder of _build_all_facts.
FactStep(step, out) ==
    /\ pc = step
    /\ IF out.kind = "raised"
       THEN Except /\ UNCHANGED facts
       ELSE /\ pc' = After(step)
            /\ result' = result
            /\ facts' = IF out.kind = "built" THEN Put(facts, step, out.df) ELSE facts
    /\ trace' = Append(trace, step)
    /\ UNCHANGED <<datasets, dimensions, orphan_stats, runs, original, antes, primera>>
    /\ UNCHANGED <<extractVars, mainVars, loadVars>>

build_hechos_postulante ==
    FactStep("hechos_postulante", BuildHechosPostulante(datasets, dimensions))
build_hechos_formacion ==
    FactStep("hechos_formacion", BuildHechosFormacion(datasets, dimensions))
build_hechos_experiencia ==
    FactStep("hechos_experiencia", BuildHechosExperiencia(datasets, dimensions))
build_hechos_vacante ==
    FactStep("hechos_vacante", BuildHechosVacante(datasets, dimensions))
build_hechos_competencia_requerida ==
    FactStep("hechos_competencia_requerida",
             BuildHechosCompetenciaRequerida(datasets, dimensions))

\* _log_summary and return self.dimensions, self.facts
log_summary ==
    /\ pc = "log_summary"
    /\ pc' = "idle"
    /\ result' = "ok"
    /\ trace' = Append(trace, "log_summary")
    /\ primera' = IF runs = 1
                  THEN [dimensions |-> dimensions, facts |-> facts]
                  ELSE primera
    /\ UNCHANGED <<datasets, dimensions, facts, orphan_stats, runs, original, antes>>
    /\ UNCHANGED <<extractVars, mainVars, loadVars>>

Next ==
    \/ transform_all
    \/ build_dim_tiempo
    \/ build_dim_ubicacion
    \/ build_dim_postulante
    \/ build_dim_empresa
    \/ build_dim_vacante
    \/ build_dim_competencia
    \/ build_dim_carrera
    \/ build_dim_institucion
    \/ reconcile_orphans
    \/ build_hechos_postulante
    \/ build_hechos_formacion
    \/ build_hechos_experiencia
    \/ build_hechos_vacante
    \/ build_hechos_competencia_requerida
    \/ log_summary

Spec == Init /\ [][Next]_vars

\* ---------------------------------------------------------------- extractor
\* The state of the transformer while no DataTransformer exists.
NoTransformer ==
    /\ datasets = EmptyDict
    /\ original = EmptyDict
    /\ primera = EmptyDict
    /\ antes = EmptyDict
    /\ dimensions = EmptyDict
    /\ facts = EmptyDict
    /\ orphan_stats = EmptyDict
    /\ pc = "none"
    /\ result = "unset"
    /\ runs = 0
    /\ trace = <<>>

\* DataExtractor.EXPECTED_FILES, in the order the dict is iterated.
ExpectedFiles == <<"postulante", "discapacidad", "educacion", "experiencias",
                   "vacantes", "competencias">>

\* A file of data/cleaned that holds the header line and no record.
HeaderOnly(df) == Frame(df.cols, <<>>)

\* The directories data/cleaned can be: every expected file is missing, holds
\* only its header, or holds the default table.
CleanedDirs ==
    {[n \in present |-> IF n \in vacios THEN HeaderOnly(AllDefault[n]) ELSE AllDefault[n]] :
        present \in SUBSET DatasetNames, vacios \in SUBSET DatasetNames}

\* DataFrame.empty
Empty(df) == Len(df.rows) = 0 \/ df.cols = {}

\* _load_csv: FileNotFoundError for a missing file, ValueError for an empty one.
LoadCsv(dir, name) ==
    IF name \notin DOMAIN dir THEN Raised
    ELSE IF Empty(dir[name]) THEN Raised
    ELSE Built(dir[name])

\* The except branch hands out the datasets loaded so far.
OnExtractErrorPartial == "datasets"

\* except Exception: return None
OnExtractError == "none"

InitExtract ==
    /\ cleaned_exists \in BOOLEAN
    /\ cleaned \in IF cleaned_exists THEN CleanedDirs ELSE {EmptyDict}
    /\ extractor = EmptyDict
    /\ extract_pc = "new"
    /\ extracted = "unset"
    /\ NoTransformer
    /\ NoMain
    /\ NoLoader

\* DataExtractor.__init__ with _validate_paths: FileNotFoundError leaves the
\* constructor when the directory does not exist.
extractor_init ==
    /\ extract_pc = "new"
    /\ extract_pc' = IF cleaned_exists THEN "ready" ELSE "raised"
    /\ extractor' = EmptyDict
    /\ UNCHANGED <<cleaned_exists, cleaned, extracted>>

\* extract_all is entered.
extract_all ==
    /\ extract_pc = "ready"
    /\ extract_pc' = ExpectedFiles[1]
    /\ UNCHANGED <<cleaned_exists, cleaned, extractor, extracted>>

\* One turn of the loop of extract_all: self.datasets[name] = _load_csv(...)
load_csv ==
    \E i \in 1..Len(ExpectedFiles) :
        LET name == ExpectedFiles[i]
            out == LoadCsv(cleaned, name)
        IN /\ extract_pc = name
           /\ IF out.kind = "raised"
              THEN /\ extract_pc' = "returned"
                   /\ extracted' = OnExtractError
                   /\ UNCHANGED extractor
              ELSE /\ extract_pc' = IF i < Len(ExpectedFiles)
                                    THEN ExpectedFiles[i + 1] ELSE "validate"
                   /\ extractor' = Put(extractor, name, out.df)
                   /\ UNCHANGED extracted
           /\ UNCHANGED <<cleaned_exists, cleaned>>

\* _validate_extraction, _log_summary and return self.datasets
validate_extraction ==
    /\ extract_pc = "validate"
    /\ extract_pc' = "returned"
    /\ extracted' =
          IF \A name \in Values(ExpectedFiles) :
                name \in DOMAIN extractor /\ ~Empty(extractor[name])
          THEN "datasets" ELSE OnExtractError
    /\ UNCHANGED <<cleaned_exists, cleaned, extractor>>

\* get_dataset: self.datasets.get(name), None for a name that is not a key.
get_dataset(name) ==
    IF name \in DOMAIN extractor THEN Built(extractor[name]) ELSE [kind |-> "none"]

\* get_summary: one entry for each item of self.datasets.
get_summary ==
    [name \in DOMAIN extractor |->
        [records |-> Len(extractor[name].rows),
         columns |-> Cardinality(extractor[name].cols)]]

NextExtract ==
    \/ extractor_init /\ UNCHANGED <<transformVars, mainVars, loadVars>>
    \/ extract_all /\ UNCHANGED <<transformVars, mainVars, loadVars>>
    \/ load_csv /\ UNCHANGED <<transformVars, mainVars, loadVars>>
    \/ validate_extraction /\ UNCHANGED <<transformVars, mainVars, loadVars>>

SpecExtract == InitExtract /\ [][NextExtract]_vars

\* --------------------------------------------------- main of the transform
\* The directories main may find: the files lack columns, or files are
\* missing or hold no record.
MainDirs == NarrowInputs \cup CleanedDirs

\* The tables of self.dimensions and self.facts in the order of items().
Tablas(dims, fcts) ==
    SelectSeq(DimensionSteps, LAMBDA d : d \in DOMAIN dims)
    \o SelectSeq(FactSteps, LAMBDA f : f \in DOMAIN fcts)

\* The result of transform_all is written whatever it is.
SinTransformarIgnored == FALSE

\* if dimensions is None or facts is None
SinTransformar == result = "none"

InitMain ==
    /\ cleaned_exists \in BOOLEAN
    /\ cleaned \in IF cleaned_exists THEN MainDirs ELSE {EmptyDict}
    /\ extractor = EmptyDict
    /\ extract_pc = "new"
    /\ extracted = "unset"
    /\ main_pc = "extract"
    /\ exit_code = "unset"
    /\ integrated = EmptyDict
    /\ NoTransformer
    /\ NoLoader

\* DataExtractor() raised: the exception leaves main and the interpreter ends
\* the script with status 1.
main_raised ==
    /\ main_pc = "extract"
    /\ extract_pc = "raised"
    /\ main_pc' = "raised"
    /\ exit_code' = "1"
    /\ UNCHANGED <<integrated, transformVars, extractVars>>

\* extract_all returned: return 1 on None, else DataTransformer(datasets).
main_extracted ==
    /\ main_pc = "extract"
    /\ extract_pc = "returned"
    /\ IF extracted = "none"
       THEN /\ main_pc' = "returned"
            /\ exit_code' = "1"
            /\ UNCHANGED transformVars
       ELSE /\ main_pc' = "transform"
            /\ exit_code' = exit_code
            /\ datasets' = extractor
            /\ original' = extractor
            /\ antes' = extractor
            /\ dimensions' = EmptyDict
            /\ facts' = EmptyDict
            /\ orphan_stats' = EmptyDict
            /\ pc' = "idle"
            /\ UNCHANGED <<result, runs, trace, primera>>
    /\ UNCHANGED <<integrated, extractVars>>

\* dimensions, facts = transformer.transform_all()
main_transform_all ==
    /\ main_pc = "transform"
    /\ runs = 0
    /\ transform_all

\* transform_all returned: return 1 on (None, None), else mkdir.
main_transformed ==
    /\ main_pc = "transform"
    /\ pc = "idle"
    /\ runs = 1
    /\ IF SinTransformar
       THEN main_pc' = "returned" /\ exit_code' = "1"
       ELSE main_pc' = "write" /\ exit_code' = exit_code
    /\ UNCHANGED <<integrated, transformVars, extractVars>>

\* One turn of the writing loops: df.to_csv of the next table, which may
\* raise; the exception leaves main.
to_csv ==
    /\ main_pc = "write"
    /\ LET pendientes == SelectSeq(Tablas(dimensions, facts),
                                   LAMBDA t : t \notin DOMAIN integrated)
       IN /\ Len(pendientes) > 0
          /\ \E ok \in BOOLEAN :
                IF ok
                THEN /\ integrated' =
                           Put(integrated, pendientes[1],
                               IF pendientes[1] \in DOMAIN dimensions
                               THEN dimensions[pendientes[1]]
                               ELSE facts[pendientes[1]])
                     /\ UNCHANGED <<main_pc, exit_code>>
                ELSE /\ main_pc' = "raised"
                     /\ exit_code' = "1"
                     /\ UNCHANGED integrated
    /\ UNCHANGED <<transformVars, extractVars>>

\* return 0, dimensions, facts
main_return ==
    /\ main_pc = "write"
    /\ \A t \in Values(Tablas(dimensions, facts)) : t \in DOMAIN integrated
    /\ main_pc' = "returned"
    /\ exit_code' = "0"
    /\ UNCHANGED <<integrated, transformVars, extractVars>>

NextMain ==
    \/ extractor_init /\ UNCHANGED <<transformVars, mainVars, loadVars>>
    \/ extract_all /\ UNCHANGED <<transformVars, mainVars, loadVars>>
    \/ load_csv /\ UNCHANGED <<transformVars, mainVars, loadVars>>
    \/ validate_extraction /\ UNCHANGED <<transformVars, mainVars, loadVars>>
    \/ main_raised /\ UNCHANGED loadVars
    \/ main_extracted /\ UNCHANGED loadVars
    \/ main_transform_all
    \/ build_dim_tiempo
    \/ build_dim_ubicacion
    \/ build_dim_postulante
    \/ build_dim_empresa
    \/ build_dim_vacante
    \/ build_dim_competencia
    \/ build_dim_carrera
    \/ build_dim_institucion
    \/ reconcile_orphans
    \/ build_hechos_postulante
    \/ build_hechos_formacion
    \/ build_hechos_experiencia
    \/ build_hechos_vacante
    \/ build_hechos_competencia_requerida
    \/ log_summary
    \/ main_transformed /\ UNCHANGED loadVars
    \/ to_csv /\ UNCHANGED loadVars
    \/ main_return /\ UNCHANGED loadVars

SpecMain == InitMain /\ [][NextMain]_vars

\* ------------------------------------------------------------------- loader
\* The tables are loaded with the dimensions in the order they are built.
LoadOrderAsBuilt == [dimensiones |-> DimensionSteps, hechos |-> FactSteps]

LOAD_ORDER ==
    [dimensiones |-> <<"dim_tiempo", "dim_ubicacion", "dim_postulante", "dim_carrera",
                       "dim_institucion", "dim_vacante", "dim_empresa",
                       "dim_competencia">>,
     hechos |-> <<"hechos_postulante", "hechos_formacion", "hechos_experiencia",
                  "hechos_vacante", "hechos_competencia_requerida">>]

TableNames == Values(LOAD_ORDER.dimensiones) \cup Values(LOAD_ORDER.hechos)

\* A table file of data/integrated, as the loader finds it.
TableFile == Frame({"sk"}, <<[sk |-> 1]>>)

\* Only the files of the dimension tables are looked for.
ArchivosOkSoloDimensiones(dir) ==
    \A tabla \in Values(LOAD_ORDER.dimensiones) : tabla \in DOMAIN dir

\* verificar_archivos_csv: every file of LOAD_ORDER exists.
ArchivosOk(dir) == \A tabla \in TableNames : tabla \in DOMAIN dir

InitLoad ==
    /\ integrated \in {[t \in S |-> TableFile] : S \in SUBSET TableNames}
    /\ load_pc = "verificar"
    /\ connection = "closed"
    /\ schema_created = FALSE
    /\ loaded = <<>>
    /\ load_result = "unset"
    /\ main_pc = "none"
    /\ exit_code = "unset"
    /\ NoExtractor
    /\ NoTransformer

\* return False, leaving the with block if it was entered (__exit__ closes).
LoadFailed ==
    /\ load_pc' = "returned"
    /\ load_result' = "False"
    /\ connection' = "closed"

\* verificar_archivos_csv and the abort on a missing file.
verificar_archivos_csv ==
    /\ load_pc = "verificar"
    /\ IF ArchivosOk(integrated)
       THEN load_pc' = "config" /\ UNCHANGED <<connection, load_result>>
       ELSE LoadFailed
    /\ UNCHANGED <<schema_created, loaded>>

\* get_neon_config(): may raise on a malformed environment.
get_neon_config ==
    /\ load_pc = "config"
    /\ \E ok \in BOOLEAN :
          IF ok THEN load_pc' = "connect" /\ UNCHANGED <<connection, load_result>>
          ELSE LoadFailed
    /\ UNCHANGED <<schema_created, loaded>>

\* with NeonDBConnection(config) as conn: connect() may raise.
connect ==
    /\ load_pc = "connect"
    /\ \E ok \in BOOLEAN :
          IF ok
          THEN load_pc' = "schema" /\ connection' = "open" /\ UNCHANGED load_result
          ELSE LoadFailed
    /\ UNCHANGED <<schema_created, loaded>>

\* The schema file is missing (return False), or execute_sql_file runs it and
\* may raise.
execute_sql_file ==
    /\ load_pc = "schema"
    /\ \E sql_exists \in BOOLEAN, ok \in BOOLEAN :
          IF sql_exists /\ ok
          THEN /\ load_pc' = LOAD_ORDER.dimensiones[1]
               /\ schema_created' = TRUE
               /\ UNCHANGED <<connection, load_result>>
          ELSE LoadFailed /\ UNCHANGED schema_created
    /\ UNCHANGED loaded

\* One turn of a loading loop: pd.read_csv and conn.load_dataframe of the
\* table; either may raise.
LoadTable(tablas, despues) ==
    \E i \in 1..Len(tablas) :
        /\ load_pc = tablas[i]
        /\ \E ok \in BOOLEAN :
              IF ok
              THEN /\ loaded' = Append(loaded, tablas[i])
                   /\ load_pc' = IF i < Len(tablas) THEN tablas[i + 1] ELSE despues
                   /\ UNCHANGED <<connection, load_result>>
              ELSE LoadFailed /\ UNCHANGED loaded
        /\ UNCHANGED schema_created

load_dimension == LoadTable(LOAD_ORDER.dimensiones, LOAD_ORDER.hechos[1])
load_fact == LoadTable(LOAD_ORDER.hechos, "validate")

\* validate_data_warehouse_structure: may raise or find the structure
\* incomplete; then the statistics and return True.
validate_structure ==
    /\ load_pc = "validate"
    /\ \E ok \in BOOLEAN :
          IF ok
          THEN /\ load_pc' = "returned"
               /\ load_result' = "True"
               /\ connection' = "closed"
          ELSE LoadFailed
    /\ UNCHANGED <<schema_created, loaded>>

NextLoad ==
    \/ verificar_archivos_csv /\ UNCHANGED <<transformVars, extractVars, mainVars>>
    \/ get_neon_config /\ UNCHANGED <<transformVars, extractVars, mainVars>>
    \/ connect /\ UNCHANGED <<transformVars, extractVars, mainVars>>
    \/ execute_sql_file /\ UNCHANGED <<transformVars, extractVars, mainVars>>
    \/ load_dimension /\ UNCHANGED <<transformVars, extractVars, mainVars>>
    \/ load_fact /\ UNCHANGED <<transformVars, extractVars, mainVars>>
    \/ validate_structure /\ UNCHANGED <<transformVars, extractVars, mainVars>>

SpecLoad == InitLoad /\ [][NextLoad]_vars

\* ------------------------------------------------------------------ claims
DimensionNames == Values(DimensionSteps)
FactNames == Values(FactSteps)

\* transform_all has returned (dimensions, facts).
Returned == pc = "idle" /\ result = "ok"

SurrogateKey ==
    [dim_tiempo |-> "fecha_sk", dim_ubicacion |-> "ubicacion_sk",
     dim_postulante |-> "postulante_sk", dim_empresa |-> "empresa_sk",
     dim_vacante |-> "vacante_sk", dim_competencia |-> "competencia_sk",
     dim_carrera |-> "carrera_sk", dim_institucion |-> "institucion_sk"]

Keys(d) == Column(dimensions[d], SurrogateKey[d])

Dense(k) ==
    /\ \A i \in 1..Len(k) : k[i] # Null
    /\ \A i, j \in 1..Len(k) : i # j => k[i] # k[j]
    /\ Values(k) = 1..Len(k)

\* C1: after transform_all the surrogate-key column of every dimension table
\* holds no null and no duplicate, and its values are exactly 1..n for the n
\* rows of the table, also when a posting ID occurs on several posting rows.
C1_SurrogateKeysDense ==
    Returned => \A d \in DOMAIN dimensions : Dense(Keys(d))

\* The competency row c is represented in hechos_competencia_requerida.
Represented(c) ==
    /\ {"dim_vacante", "dim_competencia"} \subseteq DOMAIN dimensions
    /\ "hechos_competencia_requerida" \in DOMAIN facts
    /\ \E h \in Values(facts["hechos_competencia_requerida"].rows) :
          /\ \E v \in Values(dimensions["dim_vacante"].rows) :
                v.vacante_sk = h.vacante_sk /\ v.id_vacante_original = c.AVISOID
          /\ \E k \in Values(dimensions["dim_competencia"].rows) :
                /\ k.competencia_sk = h.competencia_sk
                /\ k.nombre_competencia = c.NOMBRECOMPETENCIA

\* C2: no competency record is dropped: after transform_all every competency
\* row with a posting ID and a name, orphans included, has a row in
\* hechos_competencia_requerida that resolves to its posting and its name.
C2_NoCompetencyDropped ==
    (Returned /\ "competencias" \in DOMAIN original) =>
        \A c \in Values(original["competencias"].rows) :
            (c.AVISOID # Null /\ c.NOMBRECOMPETENCIA # NaN) => Represented(c)

\* C3: after a full transform run dim_vacante has exactly one row for every
\* posting ID of the posting dataset or referenced by the competency dataset,
\* the row of an orphan ID being the placeholder with zero vacancies.
C3_DimVacanteCoversAllPostings ==
    (Returned /\ {"vacantes", "competencias"} \subseteq DOMAIN original) =>
        /\ "dim_vacante" \in DOMAIN dimensions
        /\ \A id \in Avisos(original["vacantes"]) \cup Avisos(original["competencias"]) :
              /\ Cardinality({i \in 1..Len(dimensions["dim_vacante"].rows) :
                     dimensions["dim_vacante"].rows[i].id_vacante_original = id}) = 1
              /\ id \notin Avisos(original["vacantes"]) =>
                    \A v \in Values(dimensions["dim_vacante"].rows) :
                        v.id_vacante_original = id => v.num_vacantes = 0

\* C4: in every run the orphan reconciliation has completed before the first
\* dimension builder starts.
C4_ReconcileBeforeDimensions ==
    \A i \in 1..Len(trace) :
        trace[i] \in DimensionNames => \E j \in 1..(i - 1) : trace[j] = "reconcile"

DimensionOf ==
    [fecha_sk |-> "dim_tiempo", fecha_registro_sk |-> "dim_tiempo",
     fecha_publicacion_sk |-> "dim_tiempo", ubicacion_sk |-> "dim_ubicacion",
     postulante_sk |-> "dim_postulante", empresa_sk |-> "dim_empresa",
     vacante_sk |-> "dim_vacante", competencia_sk |-> "dim_competencia",
     carrera_sk |-> "dim_carrera", institucion_sk |-> "dim_institucion"]

\* C5: in every run all eight dimension builders have run before the first
\* fact builder starts, and a fact table that has been built has a built
\* dimension behind each of its key columns.
C5_DimensionsBeforeFacts ==
    /\ \A i \in 1..Len(trace) :
          trace[i] \in FactNames =>
              \A d \in DimensionNames : \E j \in 1..(i - 1) : trace[j] = d
    /\ \A f \in DOMAIN facts :
          \A c \in facts[f].cols \cap DOMAIN DimensionOf :
              DimensionOf[c] \in DOMAIN dimensions

\* A run in which the five fact builders have run and built their tables.
C5_Witness ==
    /\ Returned
    /\ FactNames \subseteq Values(trace)
    /\ DOMAIN facts = FactNames

References ==
    {<<"hechos_postulante", "postulante_sk", "dim_postulante">>,
     <<"hechos_formacion", "postulante_sk", "dim_postulante">>,
     <<"hechos_experiencia", "postulante_sk", "dim_postulante">>,
     <<"hechos_vacante", "vacante_sk", "dim_vacante">>,
     <<"hechos_competencia_requerida", "vacante_sk", "dim_vacante">>,
     <<"hechos_competencia_requerida", "competencia_sk", "dim_competencia">>}

\* C6: after transform_all every non-null postulante_sk, vacante_sk and
\* competencia_sk of a fact table exists in the surrogate-key column of the
\* dimension it references.
C6_ReferentialIntegrity ==
    Returned =>
        \A r \in References :
            r[1] \in DOMAIN facts =>
                /\ r[3] \in DOMAIN dimensions
                /\ Values(Column(facts[r[1]], r[2])) \ {Null} \subseteq Values(Keys(r[3]))

\* A run whose fact tables all hold rows, two of them more than one key.
C6_Witness ==
    /\ Returned
    /\ DOMAIN facts = FactNames
    /\ \A f \in FactNames : Len(facts[f].rows) > 0
    /\ \E f \in {"hechos_postulante", "hechos_experiencia"} :
          Cardinality(Values(Column(facts[f], "postulante_sk"))) > 1

\* The reconciliation of this call has just completed.
JustReconciled ==
    /\ Len(trace) > 0
    /\ trace[Len(trace)] = "reconcile"
    /\ pc # "idle"

\* S_comp and S_post of a dataset mapping.
SComp(ds) == {c.AVISOID : c \in Values(ds["competencias"].rows)} \ {Null}
SPost(ds) == {v.AVISOID : v \in Values(ds["vacantes"].rows)} \ {Null}
Orphans(ds) ==
    IF {"competencias", "vacantes"} \subseteq DOMAIN ds THEN SComp(ds) \ SPost(ds) ELSE {}

\* C7: the reconciliation only appends: the posting dataset is its rows of
\* before, in their order, followed by exactly one placeholder for each ID of
\* S_comp - S_post and none for another ID; the other datasets are unchanged.
C7_ReconcileOnlyAppends ==
    JustReconciled =>
        /\ DOMAIN datasets = DOMAIN antes
        /\ \A n \in DOMAIN antes \ {"vacantes"} : datasets[n] = antes[n]
        /\ "vacantes" \in DOMAIN antes =>
              LET old == antes["vacantes"]
                  new == datasets["vacantes"]
                  tail == (Len(old.rows) + 1)..Len(new.rows)
              IN /\ old.cols \subseteq new.cols
                 /\ Len(new.rows) = Len(old.rows) + Cardinality(Orphans(antes))
                 /\ \A i \in 1..Len(old.rows) :
                       \A c \in old.cols : new.rows[i][c] = old.rows[i][c]
                 /\ \A id \in Orphans(antes) :
                       Cardinality({i \in tail : new.rows[i].AVISOID = id}) = 1
                 /\ \A i \in tail :
                       /\ new.rows[i].AVISOID \in Orphans(antes)
                       /\ new.rows[i].NOMBREAVISO = "REGISTRO_HUERFANO_PRESERVADO"

\* A reconciliation that found two postings and appended a placeholder.
C7_Witness ==
    /\ JustReconciled
    /\ Orphans(antes) # {}
    /\ Len(antes["vacantes"].rows) > 1
    /\ Len(datasets["vacantes"].rows) > Len(antes["vacantes"].rows)

\* C8: a second reconciliation of the reconciled mapping appends nothing, and
\* after any number of reconciliations every orphan posting ID has exactly
\* one posting row, its placeholder.
C8_ReconcileIdempotent ==
    JustReconciled =>
        /\ runs > 1 => datasets = antes
        /\ \A id \in Orphans(original) :
              Cardinality({i \in 1..Len(datasets["vacantes"].rows) :
                              datasets["vacantes"].rows[i].AVISOID = id}) = 1

\* The second reconciliation of a mapping that had an orphan.
C8_Witness ==
    /\ JustReconciled
    /\ runs > 1
    /\ Orphans(original) # {}

NonEmpty(tables, n) == n \in DOMAIN tables /\ Len(tables[n].rows) > 0

\* C9: a successful transform_all over the six non-empty datasets yields
\* exactly the 8 named dimension tables and the 5 named fact tables, each of
\* them non-empty.
C9_AllTablesNonEmpty ==
    (Returned /\ DOMAIN original = DatasetNames) =>
        /\ DOMAIN dimensions = DimensionNames
        /\ DOMAIN facts = FactNames
        /\ \A d \in DimensionNames : NonEmpty(dimensions, d)
        /\ \A f \in FactNames : NonEmpty(facts, f)

\* C9 as amended: a successful transform_all over the six non-empty datasets
\* yields the 5 named fact tables and the named dimension tables, dim_empresa,
\* dim_carrera and dim_institucion being absent exactly when the column
\* IDEMPRESA, CARRERA or INSTITUCION is; dim_tiempo, dim_ubicacion,
\* dim_postulante, dim_vacante, dim_competencia, dim_empresa when it is built,
\* and hechos_postulante are non-empty (the other tables may be empty).
C9_TablesBuilt ==
    (Returned /\ DOMAIN original = DatasetNames) =>
        /\ DOMAIN facts = FactNames
        /\ DOMAIN dimensions \subseteq DimensionNames
        /\ "dim_empresa" \in DOMAIN dimensions <=> "IDEMPRESA" \in antes["vacantes"].cols
        /\ "dim_carrera" \in DOMAIN dimensions <=> "CARRERA" \in antes["educacion"].cols
        /\ "dim_institucion" \in DOMAIN dimensions
              <=> "INSTITUCION" \in antes["educacion"].cols
        /\ \A d \in {"dim_tiempo", "dim_ubicacion", "dim_postulante", "dim_vacante",
                     "dim_competencia"} : NonEmpty(dimensions, d)
        /\ "dim_empresa" \in DOMAIN dimensions => NonEmpty(dimensions, "dim_empresa")
        /\ NonEmpty(facts, "hechos_postulante")

\* A successful run over six datasets that leaves a fact table empty and
\* another one that builds no dim_empresa.
C9_Witness ==
    /\ Returned
    /\ DOMAIN original = DatasetNames
    /\ \/ \E f \in DOMAIN facts : Len(facts[f].rows) = 0
       \/ "dim_empresa" \notin DOMAIN dimensions

Entered(step) == step \in Values(trace)

\* C10: when the location columns are missing from both the applicant and the
\* posting dataset, or the posting-ID or applicant-ID column is missing, the
\* builder of the dimension skips it and transform_all still returns
\* dimensions and facts, not (None, None).
C10_MissingSourceSkipsDimension ==
    (pc = "idle" /\ runs > 0 /\ DOMAIN original = DatasetNames) =>
        /\ (/\ Entered("dim_ubicacion")
            /\ ~Has(original["postulante"], LocCols)
            /\ ~Has(original["vacantes"], LocCols))
              => (result = "ok" /\ "dim_ubicacion" \notin DOMAIN dimensions)
        /\ (Entered("dim_vacante") /\ "AVISOID" \notin original["vacantes"].cols)
              => (result = "ok" /\ "dim_vacante" \notin DOMAIN dimensions)
        /\ (Entered("dim_postulante") /\ "ID_POSTULANTE" \notin original["postulante"].cols)
              => (result = "ok" /\ "dim_postulante" \notin DOMAIN dimensions)

\* C11: on a cleaned-data directory that does not exist, creating the extractor
\* and calling extract_all lets no exception escape, and the call yields None
\* or an empty dataset mapping.
C11_MissingDirectoryGraceful ==
    ~cleaned_exists =>
        /\ extract_pc # "raised"
        /\ extract_pc = "returned" => (extracted = "none" \/ extractor = EmptyDict)

\* C12: extract_all returns either the mapping of exactly the six dataset
\* names, each bound to the non-empty table of its file, or None; it returns
\* None whenever one of the six files is missing or has no rows, however many
\* files were loaded before it.
C12_ExtractAllOrNothing ==
    extract_pc = "returned" =>
        /\ extracted \in {"none", "datasets"}
        /\ extracted = "datasets" =>
              /\ DOMAIN extractor = DatasetNames
              /\ \A n \in DatasetNames :
                    ~Empty(extractor[n]) /\ extractor[n] = cleaned[n]
        /\ (\E n \in DatasetNames : n \notin DOMAIN cleaned \/ Len(cleaned[n].rows) = 0)
              => extracted = "none"

\* extract_all has returned None after it had loaded several files.
C12_Witness ==
    /\ extract_pc = "returned"
    /\ extracted = "none"
    /\ Cardinality(DOMAIN extractor) >= 2

\* The load sequence the specification states.
LoadSequence ==
    <<"dim_tiempo", "dim_ubicacion", "dim_postulante", "dim_carrera",
      "dim_institucion", "dim_vacante", "dim_empresa", "dim_competencia",
      "hechos_postulante", "hechos_formacion", "hechos_experiencia",
      "hechos_vacante", "hechos_competencia_requerida">>

\* C13: the tables are loaded in exactly the sequence dim_tiempo,
\* dim_ubicacion, dim_postulante, dim_carrera, dim_institucion, dim_vacante,
\* dim_empresa, dim_competencia, hechos_postulante, hechos_formacion,
\* hechos_experiencia, hechos_vacante, hechos_competencia_requerida: the loaded
\* tables are always a prefix of it (so no fact is loaded before the eight
\* dimensions), the loader reports success only when all thirteen are loaded,
\* and after the loader returned, a failure included, no table is loaded.
C13_LoadOrder ==
    /\ [](/\ Len(loaded) <= Len(LoadSequence)
          /\ loaded = SubSeq(LoadSequence, 1, Len(loaded))
          /\ load_result = "True" => loaded = LoadSequence
          /\ (load_pc = "returned" /\ loaded # LoadSequence) => load_result = "False")
    /\ [][load_pc = "returned" => loaded' = loaded]_vars

\* The load of a fact table failed after the dimensions and a fact were loaded.
C13_Witness ==
    /\ load_pc = "returned"
    /\ load_result = "False"
    /\ Len(loaded) > 8
    /\ Len(loaded) < 13

\* A stage of main has failed: the extractor could not be constructed,
\* extract_all returned None, or transform_all returned (None, None).
StageFailed ==
    \/ extract_pc = "raised"
    \/ extract_pc = "returned" /\ extracted = "none"
    \/ main_pc \in {"transform", "returned", "raised"} /\ pc = "idle" /\ result = "none"

\* C14: main writes an output file only after extract_all returned the
\* dataset mapping and transform_all returned the dimensions and the facts;
\* when a stage fails, main ends with status 1 and has written no file; it
\* ends with status 0 only after it wrote every table.
C14_FailClean ==
    /\ integrated # EmptyDict => (extracted = "datasets" /\ result = "ok")
    /\ StageFailed => integrated = EmptyDict
    /\ (StageFailed /\ main_pc \in {"returned", "raised"}) => exit_code = "1"
    /\ exit_code = "0" =>
          DOMAIN integrated = DOMAIN dimensions \cup DOMAIN facts

\* main has returned 1 because transform_all returned (None, None) after it
\* had built tables.
C14_Witness ==
    /\ main_pc = "returned"
    /\ extracted = "datasets"
    /\ result = "none"
    /\ dimensions # EmptyDict
    /\ exit_code = "1"

\* The position of the first row of the applicant dataset that carries the ID.
FirstRow(df, id) == Min({i \in 1..Len(df.rows) : df.rows[i].ID_POSTULANTE = id})

\* C15: dim_postulante has exactly one row per distinct value of the applicant
\* ID column, the attributes of the row are those of the first source row with
\* that ID, and the surrogate keys follow the order of first occurrence.
C15_DimPostulanteKeepsFirst ==
    "dim_postulante" \in DOMAIN dimensions =>
        LET src == datasets["postulante"]
            dim == dimensions["dim_postulante"].rows
            ids == Values(Column(src, "ID_POSTULANTE"))
        IN /\ Len(dim) = Cardinality(ids)
           /\ \A id \in ids :
                 \E k \in 1..Len(dim) :
                    /\ dim[k].id_postulante_original = id
                    /\ \A j \in 1..Len(dim) :
                          dim[j].id_postulante_original = id => j = k
                    /\ dim[k].edad = src.rows[FirstRow(src, id)].EDAD
                    /\ dim[k].sexo = src.rows[FirstRow(src, id)].SEXO
                    /\ dim[k].ubigeo = src.rows[FirstRow(src, id)].UBIGEO
                    /\ dim[k].estado_conadis = src.rows[FirstRow(src, id)].ESTADO_CONADIS
           /\ \A a, b \in 1..Len(dim) :
                 dim[a].postulante_sk < dim[b].postulante_sk
                 <=> FirstRow(src, dim[a].id_postulante_original)
                        < FirstRow(src, dim[b].id_postulante_original)

\* dim_postulante was built from two rows of one applicant ID that differ in
\* their attributes.
C15_Witness ==
    /\ "dim_postulante" \in DOMAIN dimensions
    /\ \E i, j \in 1..Len(datasets["postulante"].rows) :
          /\ i < j
          /\ datasets["postulante"].rows[i].ID_POSTULANTE
                = datasets["postulante"].rows[j].ID_POSTULANTE
          /\ datasets["postulante"].rows[i].SEXO # datasets["postulante"].rows[j].SEXO

\* The location tuples of the applicant and posting datasets.
LocationTuples(ds) ==
    UNION {Values(ds[n].rows) : n \in {"postulante", "vacantes"} \cap DOMAIN ds}

\* C16: no row of dim_ubicacion holds a null in departamento, provincia or
\* distrito: each is the value of a source location tuple with the row's
\* geocode, the sentinel string standing for a missing value.
C16_DimUbicacionNoNullNames ==
    "dim_ubicacion" \in DOMAIN dimensions =>
        \A r \in Values(dimensions["dim_ubicacion"].rows) :
            /\ r.departamento # NaN
            /\ r.provincia # NaN
            /\ r.distrito # NaN
            /\ \E t \in LocationTuples(datasets) :
                  /\ t.UBIGEO = r.ubigeo
                  /\ r.departamento = IF t.DEPARTAMENTO = NaN THEN "SIN_ESPECIFICAR"
                                      ELSE t.DEPARTAMENTO
                  /\ r.provincia = IF t.PROVINCIA = NaN THEN "SIN_ESPECIFICAR"
                                   ELSE t.PROVINCIA
                  /\ r.distrito = IF t.DISTRITO = NaN THEN "SIN_ESPECIFICAR"
                                  ELSE t.DISTRITO

\* dim_ubicacion holds a source location whose district was missing while its
\* department was not.
C16_Witness ==
    /\ "dim_ubicacion" \in DOMAIN dimensions
    /\ \E r \in Values(dimensions["dim_ubicacion"].rows) :
          r.distrito = "SIN_ESPECIFICAR" /\ r.departamento = "LIMA"

\* The null of a dimension column.
NullIn(c) ==
    IF c \in {"id_postulante_original", "edad", "id_empresa_original",
              "id_vacante_original", "num_vacantes", "tiempo_experiencia", "fecha"}
    THEN Null ELSE NaN

\* C17: no attribute column of a dimension table holds a null.
C17_NoNullDimensionAttributes ==
    \A d \in DOMAIN dimensions :
        \A r \in Values(dimensions[d].rows) :
            \A c \in dimensions[d].cols \ {SurrogateKey[d]} : r[c] # NullIn(c)

\* C18: when the source dataset of a fact is present and a dimension the fact
\* references was not built, the fact builder does not fail the run:
\* transform_all returns dimensions and facts.
C18_SkippedDimensionNotFatal ==
    (pc = "idle" /\ runs > 0) =>
        /\ (/\ Entered("hechos_formacion")
            /\ "educacion" \in DOMAIN original
            /\ "dim_postulante" \notin DOMAIN dimensions) => result = "ok"
        /\ (/\ Entered("hechos_experiencia")
            /\ "experiencias" \in DOMAIN original
            /\ "dim_postulante" \notin DOMAIN dimensions) => result = "ok"
        /\ (/\ Entered("hechos_competencia_requerida")
            /\ "competencias" \in DOMAIN original
            /\ "dim_vacante" \notin DOMAIN dimensions) => result = "ok"

\* The fact row r of hechos_vacante carries the keys of the posting v.
Carries(v, r) ==
    /\ \E d \in Values(dimensions["dim_vacante"].rows) :
          d.id_vacante_original = v.AVISOID /\ d.vacante_sk = r.vacante_sk
    /\ "ubicacion_sk" \in facts["hechos_vacante"].cols =>
          \E u \in Values(dimensions["dim_ubicacion"].rows) :
              u.ubigeo = v.UBIGEO /\ u.ubicacion_sk = r.ubicacion_sk
    /\ "empresa_sk" \in facts["hechos_vacante"].cols =>
          \E e \in Values(dimensions["dim_empresa"].rows) :
              e.id_empresa_original = v.IDEMPRESA /\ e.empresa_sk = r.empresa_sk

\* The posting v resolves to dim_vacante, a location and a company.
Resolves(v) ==
    /\ \E d \in Values(dimensions["dim_vacante"].rows) :
          d.id_vacante_original = v.AVISOID
    /\ "ubicacion_sk" \in facts["hechos_vacante"].cols =>
          \E u \in Values(dimensions["dim_ubicacion"].rows) : u.ubigeo = v.UBIGEO
    /\ "empresa_sk" \in facts["hechos_vacante"].cols =>
          \E e \in Values(dimensions["dim_empresa"].rows) :
              e.id_empresa_original = v.IDEMPRESA

\* C19: if the source posting dataset has no ACTIVO column then, after
\* transform_all, with or without orphan competencies, every posting that
\* resolves to dim_vacante, a location and a company has a row in
\* hechos_vacante, and hechos_vacante has the column activo with the value
\* true in every row.
C19_ActivoDefaultsTrue ==
    (/\ Returned
     /\ "vacantes" \in DOMAIN original
     /\ "ACTIVO" \notin original["vacantes"].cols) =>
        /\ "hechos_vacante" \in DOMAIN facts
        /\ "activo" \in facts["hechos_vacante"].cols
        /\ \A r \in Values(facts["hechos_vacante"].rows) : r.activo = "True"
        /\ \A v \in Values(original["vacantes"].rows) :
              Resolves(v) =>
                  \E r \in Values(facts["hechos_vacante"].rows) : Carries(v, r)

\* The posting v has no creation date, or one that is no date of dim_tiempo.
Undated(v) ==
    \/ v.FECHACREACION = Null
    \/ Normalize(v.FECHACREACION) \notin Values(Column(dimensions["dim_tiempo"], "fecha"))

\* C20: after transform_all no row of hechos_vacante holds a null in a column
\* of the table, and every posting that resolves to its dimensions and whose
\* creation date is missing or is no date of dim_tiempo has its row, with
\* fecha_publicacion_sk equal to the smallest fecha_sk of dim_tiempo.
C20_HechosVacanteNoNulls ==
    (Returned /\ "hechos_vacante" \in DOMAIN facts) =>
        /\ \A r \in Values(facts["hechos_vacante"].rows) :
              /\ \A c \in facts["hechos_vacante"].cols \ {"activo"} : r[c] # Null
              /\ "activo" \in facts["hechos_vacante"].cols => r.activo # NaN
        /\ "fecha_publicacion_sk" \in facts["hechos_vacante"].cols =>
              \A v \in Values(datasets["vacantes"].rows) :
                  (Resolves(v) /\ Undated(v)) =>
                      \E r \in Values(facts["hechos_vacante"].rows) :
                          /\ Carries(v, r)
                          /\ r.fecha_publicacion_sk \in Values(Keys("dim_tiempo"))
                          /\ \A k \in Values(Keys("dim_tiempo")) :
                                r.fecha_publicacion_sk <= k

\* A run over a posting without a creation date, with several dates in
\* dim_tiempo and the date key in hechos_vacante.
C20_Witness ==
    /\ Returned
    /\ "hechos_vacante" \in DOMAIN facts
    /\ "fecha_publicacion_sk" \in facts["hechos_vacante"].cols
    /\ Len(dimensions["dim_tiempo"].rows) > 1
    /\ \E v \in Values(datasets["vacantes"].rows) :
          /\ v.FECHACREACION = Null
          /\ Resolves(v)
          /\ \E r \in Values(facts["hechos_vacante"].rows) : Carries(v, r)

\* The ubicacion_sk of the geocode, null when dim_ubicacion has no row for it.
UbicacionSk(ubigeo) ==
    LET m == {u \in Values(dimensions["dim_ubicacion"].rows) : u.ubigeo = ubigeo}
    IN IF m = {} THEN Null ELSE (CHOOSE u \in m : TRUE).ubicacion_sk

\* C21: after transform_all hechos_postulante has, for every row of the
\* applicant dataset, a row with the postulante_sk of its ID and the
\* ubicacion_sk of its geocode (null when the geocode has no row in
\* dim_ubicacion), and every row of the table carries the smallest fecha_sk of
\* dim_tiempo as fecha_registro_sk.
C21_HechosPostulanteKeepsAll ==
    (Returned /\ "hechos_postulante" \in DOMAIN facts) =>
        LET h == facts["hechos_postulante"]
        IN /\ \A p \in Values(datasets["postulante"].rows) :
                 \E d \in Values(dimensions["dim_postulante"].rows) :
                    /\ d.id_postulante_original = p.ID_POSTULANTE
                    /\ \E r \in Values(h.rows) :
                          /\ r.postulante_sk = d.postulante_sk
                          /\ "ubicacion_sk" \in h.cols =>
                                r.ubicacion_sk = UbicacionSk(p.UBIGEO)
           /\ "fecha_registro_sk" \in h.cols
           /\ \A r \in Values(h.rows) :
                 /\ r.fecha_registro_sk \in Values(Keys("dim_tiempo"))
                 /\ \A k \in Values(Keys("dim_tiempo")) : r.fecha_registro_sk <= k

\* A run over an applicant whose geocode has no row in dim_ubicacion, with
\* several dates in dim_tiempo.
C21_Witness ==
    /\ Returned
    /\ "hechos_postulante" \in DOMAIN facts
    /\ "ubicacion_sk" \in facts["hechos_postulante"].cols
    /\ Len(dimensions["dim_tiempo"].rows) > 1
    /\ \E p \in Values(datasets["postulante"].rows) :
          /\ p.UBIGEO # NaN
          /\ UbicacionSk(p.UBIGEO) = Null
          /\ \E r \in Values(facts["hechos_postulante"].rows) :
                r.ubicacion_sk = Null /\ r.postulante_sk # Null

\* The surrogate key of the dimension row whose column c holds v, null when
\* the dimension has no such row.
KeyOf(d, c, v) ==
    LET m == {x \in Values(dimensions[d].rows) : x[c] = v}
    IN IF m = {} THEN Null ELSE (CHOOSE x \in m : TRUE)[SurrogateKey[d]]

\* The row r of hechos_formacion is the row of the education record e.
Formacion(e, r) ==
    /\ r.postulante_sk # Null
    /\ r.postulante_sk = KeyOf("dim_postulante", "id_postulante_original",
                               e.ID_POSTULANTE)
    /\ "carrera_sk" \in facts["hechos_formacion"].cols =>
          r.carrera_sk = KeyOf("dim_carrera", "nombre_carrera", e.CARRERA)
    /\ "institucion_sk" \in facts["hechos_formacion"].cols =>
          r.institucion_sk = KeyOf("dim_institucion", "nombre_institucion",
                                   e.INSTITUCION)

\* C22: after transform_all hechos_formacion has the row of an education
\* record if and only if the record's applicant ID is in dim_postulante: every
\* such record has its row, with a null carrera_sk or institucion_sk when the
\* career or institution is missing or unresolved, and every row of the table
\* is the row of such a record.
C22_HechosFormacionInnerOnApplicant ==
    (Returned /\ "hechos_formacion" \in DOMAIN facts) =>
        /\ \A e \in Values(datasets["educacion"].rows) :
              KeyOf("dim_postulante", "id_postulante_original", e.ID_POSTULANTE) # Null
                  => \E r \in Values(facts["hechos_formacion"].rows) : Formacion(e, r)
        /\ \A r \in Values(facts["hechos_formacion"].rows) :
              \E e \in Values(datasets["educacion"].rows) : Formacion(e, r)

\* A run that dropped an education record of an unknown applicant and kept
\* one without a career.
C22_Witness ==
    /\ Returned
    /\ "hechos_formacion" \in DOMAIN facts
    /\ "carrera_sk" \in facts["hechos_formacion"].cols
    /\ \E e \in Values(datasets["educacion"].rows) :
          KeyOf("dim_postulante", "id_postulante_original", e.ID_POSTULANTE) = Null
    /\ \E r \in Values(facts["hechos_formacion"].rows) : r.carrera_sk = Null

\* C23: hechos_experiencia holds exactly the postulante_sk of the applicants
\* of dim_postulante that have at least one experience record: one row per
\* such applicant, no duplicate, no null, and nothing for an experience
\* record whose applicant ID is not in dim_postulante.
ConExperiencia ==
    {d.postulante_sk : d \in {x \in Values(dimensions["dim_postulante"].rows) :
        \E e \in Values(datasets["experiencias"].rows) :
            e.ID_POSTULANTE = x.id_postulante_original}}

C23_HechosExperienciaExact ==
    (Returned /\ "hechos_experiencia" \in DOMAIN facts) =>
        LET h == facts["hechos_experiencia"].rows
        IN /\ {r.postulante_sk : r \in Values(h)} = ConExperiencia
           /\ Cardinality(Values(h)) = Len(h)
           /\ \A r \in Values(h) : r.postulante_sk # Null

C23_Witness ==
    /\ Returned
    /\ "hechos_experiencia" \in DOMAIN facts
    /\ Len(facts["hechos_experiencia"].rows) >= 1
    /\ \E i, j \in DOMAIN datasets["experiencias"].rows :
          /\ i # j
          /\ datasets["experiencias"].rows[i].ID_POSTULANTE
                = datasets["experiencias"].rows[j].ID_POSTULANTE
          /\ KeyOf("dim_postulante", "id_postulante_original",
                   datasets["experiencias"].rows[i].ID_POSTULANTE) # Null
    /\ \E d \in Values(dimensions["dim_postulante"].rows) :
          d.postulante_sk \notin ConExperiencia

\* C24: dim_tiempo has exactly one row per distinct calendar day that occurs
\* in the date columns of the job-posting and education datasets it was built
\* from, the time of day discarded, and its surrogate keys follow the date
\* order: a.fecha < b.fecha exactly when a.fecha_sk < b.fecha_sk, so that
\* fecha_sk = 1 is the earliest date.
DiasDe(ds, name, cols) ==
    IF name \notin DOMAIN ds THEN {}
    ELSE {r[c] \div TicksPerDay :
            r \in Values(ds[name].rows), c \in cols \cap ds[name].cols}
         \ {Null \div TicksPerDay}
Dias(ds) ==
    DiasDe(ds, "vacantes", {"FECHAINICIO", "FECHAFIN", "FECHACREACION"})
    \cup DiasDe(ds, "educacion", {"FECHAINICIO", "FECHAFIN"})

C24_DimTiempoOneRowPerDayInOrder ==
    Returned =>
        LET t == dimensions["dim_tiempo"].rows
        IN /\ \A r \in Values(t) : r.fecha % TicksPerDay = 0
           /\ {r.fecha \div TicksPerDay : r \in Values(t)} = Dias(antes)
           /\ Len(t) = Cardinality(Dias(antes))
           /\ \A a, b \in Values(t) : (a.fecha < b.fecha) <=> (a.fecha_sk < b.fecha_sk)
           /\ \A a \in Values(t) :
                 a.fecha_sk = 1 => \A b \in Values(t) : a.fecha <= b.fecha

C24_Witness ==
    /\ Returned
    /\ Len(dimensions["dim_tiempo"].rows) >= 3
    /\ \E v \in Values(antes["vacantes"].rows) :
          /\ v.FECHAINICIO # Null /\ v.FECHACREACION # Null
          /\ v.FECHAINICIO # v.FECHACREACION
          /\ v.FECHAINICIO \div TicksPerDay = v.FECHACREACION \div TicksPerDay

\* C25: every placeholder posting row that reconciliation appends carries the
\* ID of an orphan posting, the fixed marker name, VACANTES = 0,
\* TIEMPOEXPERIENCIA = 0, the sentinel strings for sector, department,
\* province and district, and one and the same date, the run date, in
\* FECHAINICIO, FECHAFIN and FECHACREACION.
Appended ==
    IF "vacantes" \in DOMAIN datasets
    THEN {datasets["vacantes"].rows[i] :
            i \in (Len(antes["vacantes"].rows) + 1)..Len(datasets["vacantes"].rows)}
    ELSE {}

C25_PlaceholderFields ==
    JustReconciled =>
        \A p \in Appended :
            /\ p.AVISOID \in Orphans(antes)
            /\ p.NOMBREAVISO = "REGISTRO_HUERFANO_PRESERVADO"
            /\ p.VACANTES = 0
            /\ p.TIEMPOEXPERIENCIA = 0
            /\ p.SECTOR = "SIN_CLASIFICAR"
            /\ p.DEPARTAMENTO = "SIN_ESPECIFICAR"
            /\ p.PROVINCIA = "SIN_ESPECIFICAR"
            /\ p.DISTRITO = "SIN_ESPECIFICAR"
            /\ p.FECHAINICIO \in RunDates
            /\ p.FECHAFIN = p.FECHAINICIO
            /\ p.FECHACREACION = p.FECHAINICIO

C25_Witness ==
    /\ JustReconciled
    /\ Cardinality(Appended) >= 2
    /\ \E p \in Appended : p.FECHAINICIO = TicksPerDay * 6

\* C26: after a reconciliation with both the competency and the job-posting
\* dataset present, the statistics record holds count = |S_comp - S_post|,
\* total = |S_comp| and percentage = count / total * 100 (0 when total is 0),
\* so that 0 <= count <= total and 0 <= percentage <= 100; it is written also
\* when there are no orphans.  The percentage is the fraction num / den.
C26_OrphanStats ==
    (JustReconciled /\ {"competencias", "vacantes"} \subseteq DOMAIN antes) =>
        /\ {"competencias_huerfanos", "competencias_total", "competencias_pct"}
              \subseteq DOMAIN orphan_stats
        /\ LET count == orphan_stats["competencias_huerfanos"]
               total == orphan_stats["competencias_total"]
               pct == orphan_stats["competencias_pct"]
           IN /\ count = Cardinality(SComp(antes) \ SPost(antes))
              /\ total = Cardinality(SComp(antes))
              /\ pct.den > 0
              /\ IF total = 0 THEN pct.num = 0
                 ELSE pct.num * total = count * 100 * pct.den
              /\ 0 <= count /\ count <= total
              /\ 0 <= pct.num /\ pct.num <= 100 * pct.den

C26_Witness ==
    /\ JustReconciled
    /\ runs = 1
    /\ {"competencias", "vacantes"} \subseteq DOMAIN antes
    /\ Orphans(antes) = {}
    /\ orphan_stats["competencias_huerfanos"] = 0
    /\ orphan_stats["competencias_total"] = 2

\* C27: after a failed extract_all no partial dataset mapping is obtainable
\* from the extractor: get_dataset returns None for every dataset name and
\* get_summary is empty, the datasets loaded before the failing file not
\* being retained.
C27_NoPartialAfterFailure ==
    (extract_pc = "returned" /\ extracted = "none") =>
        /\ \A name \in DatasetNames : get_dataset(name).kind = "none"
        /\ DOMAIN get_summary = {}

\* What the step of transform_all named step does in the current state.
Outcome(step) ==
    CASE step = "dim_tiempo" -> BuildDimTiempo(datasets)
      [] step = "dim_ubicacion" -> BuildDimUbicacion(datasets)
      [] step = "dim_postulante" -> BuildDimPostulante(datasets)
      [] step = "dim_empresa" -> BuildDimEmpresa(datasets)
      [] step = "dim_vacante" -> BuildDimVacante(datasets)
      [] step = "dim_competencia" -> BuildDimCompetencia(datasets)
      [] step = "dim_carrera" -> BuildDimCarrera(datasets)
      [] step = "dim_institucion" -> BuildDimInstitucion(datasets)
      [] step = "reconcile" ->
            IF /\ {"competencias", "vacantes"} \subseteq DOMAIN datasets
               /\ \/ "AVISOID" \notin datasets["competencias"].cols
                  \/ "AVISOID" \notin datasets["vacantes"].cols
            THEN Raised ELSE Skipped
      [] step = "hechos_postulante" -> BuildHechosPostulante(datasets, dimensions)
      [] step = "hechos_formacion" -> BuildHechosFormacion(datasets, dimensions)
      [] step = "hechos_experiencia" -> BuildHechosExperiencia(datasets, dimensions)
      [] step = "hechos_vacante" -> BuildHechosVacante(datasets, dimensions)
      [] step = "hechos_competencia_requerida" ->
            BuildHechosCompetenciaRequerida(datasets, dimensions)
      [] OTHER -> Skipped

\* transform_all has returned, in this state, whatever it returned.
Finished == pc = "idle" /\ runs > 0

\* C28: transform_all never raises and never returns a half result: it
\* returns (dimensions, facts) only after the eight dimension builders, the
\* reconciliation and the five fact builders ran, in this order and without an
\* exception, and it returns (None, None) when one of these steps raised: the
\* step that raises is the last one that runs.
C28_AllOrNone ==
    /\ [](Finished =>
            /\ result \in {"ok", "none"}
            /\ result = "ok" => trace = Steps
            /\ result = "none" =>
                  /\ Len(trace) >= 1
                  /\ Len(trace) < Len(Steps)
                  /\ trace = SubSeq(Steps, 1, Len(trace))
                  /\ Outcome(trace[Len(trace)]).kind = "raised")
    /\ [][(pc # "idle" /\ Outcome(pc).kind = "raised")
             => (pc' = "idle" /\ result' = "none")]_vars

C28_Witness ==
    /\ Finished
    /\ result = "none"
    /\ "reconcile" \in Values(trace)
    /\ trace[Len(trace)] \in FactNames
    /\ dimensions # EmptyDict

\* C29: transform_all is repeatable: called twice on the same DataTransformer
\* whose dataset mapping holds at least one orphan competency, the second
\* call returns the same dimension tables and the same fact tables as the
\* first.
C29_TransformAllRepeatable ==
    (Returned /\ runs = 2 /\ DOMAIN primera # {} /\ Orphans(original) # {}) =>
        /\ dimensions = primera.dimensions
        /\ facts = primera.facts

\* C30: the loader touches the database only when all its inputs exist: when
\* one of the 13 expected table files is missing, load_data_warehouse returns
\* False and at no moment has it opened a database connection, created the
\* schema or loaded a table.
C30_NoDatabaseWithoutFiles ==
    (\E tabla \in Values(LoadSequence) : tabla \notin DOMAIN integrated) =>
        /\ load_pc \in {"verificar", "returned"}
        /\ connection = "closed"
        /\ ~schema_created
        /\ loaded = <<>>
        /\ load_pc = "returned" => load_result = "False"

C30_Witness ==
    /\ load_pc = "returned"
    /\ load_result = "False"
    /\ Cardinality(DOMAIN integrated) = 12
    /\ "hechos_competencia_requerida" \notin DOMAIN integrated

====
